---------------------------- MODULE Spec2Model ----------------------------
(***************************************************************************)
(* Asynchronous job execution subsystem of the media generation backend:   *)
(* the durable job store, the in-memory job registry (JobManager), the     *)
(* queue worker pool (QueueWorker) with its recovery and zombie reaper,    *)
(* the submission handlers of routers/generate.py with the result cache,   *)
(* and the remote call adapter (VertexAIService) with its permits.         *)
(*                                                                         *)
(* The specifications share the variables:                                 *)
(*   Spec         the queue worker pool over the store and the registry    *)
(*   FairSpec     the same with the event loop's scheduling                *)
(*   FaultSpec    the pool over a store whose calls can raise              *)
(*   SubmitSpec   the submission handlers, the cache and background tasks  *)
(*   PermitSpec   the two semaphores under many concurrent adapter calls   *)
(*   AdapterSpec  the image call of the adapter with its retry policy      *)
(*   StreamSpec   the status streams over the registry                     *)
(*   AuthSpec     the refresh tokens and their rotation                    *)
(*   AssetSpec    the Asset rows and their owners                          *)
(*   RegistrySpec the registry's entries and their cleanup                 *)
(*   FunctionSpec the adapter's pure functions over bounded inputs         *)
(* Each one keeps the variables of the other parts at their initial value. *)
(***************************************************************************)
EXTENDS Integers, Sequences, FiniteSets, TLC

VARIABLES
    store,      \* db.job: the durable job rows, by job id
    clock,      \* the store's time, stamps createdAt
    jobs,       \* JobManager._jobs: the LiveJob entries, by job id
    queue,      \* QueueWorker._queue: the FIFO of job ids
    running,    \* QueueWorker._running
    wpc,        \* each worker coroutine's position
    wjob,       \* the job id a worker holds (0: none)
    wexc,       \* the message of the exception a worker is handling
    temp,       \* the jobs whose reference image is under the temp directory
    assets,     \* db.asset: the ids of the Asset rows present
    bg,         \* the background task generate.py scheduled for a job
    req,        \* the last submission received, with the job id it was given
    response,   \* the status of the GenerateResponse returned for a job
    imageValue, \* IMAGE_SEMAPHORE._value: the free image permits
    videoValue, \* VIDEO_SEMAPHORE._value: the free video permits
    img,        \* how many generate_image calls are at each position
    vid,        \* how many generate_video_from_* calls are at each position
    script,     \* what the provider answers to its 1st, 2nd, ... call
    caller,     \* who invoked the adapter for the job at hand
    apc,        \* the position of that adapter invocation
    attempt,    \* tenacity's attempt number of that invocation
    calls,      \* the provider calls that invocation has made
    outcome,    \* what that invocation returned or raised
    jobStatus,  \* the store status of the job at hand
    kind,       \* the modality of the job at hand
    jobError,   \* the store errorMessage of the job at hand
    lro,        \* the poll loop of that invocation: seconds elapsed, polls sent
    streams,    \* the open status streams: position, job, frames written
    refreshtoken, \* the RefreshToken table: the row of each token string
    authReq,    \* the auth request of each client: position and response
    spent,      \* the tokens that a refresh has rotated and a logout revoked
    owner,      \* the userId column of the Asset rows, 0 for null
    files,      \* the files that exist under the storage directory
    assetReq,   \* the asset request of each client: position and response
    fn          \* the last application of one of the adapter's pure functions

queueVars == <<store, clock, jobs, queue, running, wpc, wjob, wexc, temp>>

submitVars == <<assets, bg, req, response>>

permitVars == <<imageValue, videoValue, img, vid>>

adapterVars ==
    <<script, caller, apc, attempt, calls, outcome, jobStatus, kind, jobError, lro>>

authVars == <<refreshtoken, authReq, spent>>

assetVars == <<owner, files, assetReq>>

(* the state of the HTTP front: streams, auth and asset management *)
frontVars == <<streams, authVars, assetVars>>

(* what the stream and the registry's updaters leave alone, beside the     *)
(* store and the queue                                                     *)
besideStreams == <<permitVars, adapterVars, authVars, assetVars, fn>>

vars == <<store, clock, jobs, queue, running, wpc, wjob, wexc, temp,
          assets, bg, req, response, permitVars, adapterVars, frontVars, fn>>

serviceVars == <<store, clock, jobs, queue, running, wpc, wjob, wexc, temp,
                 assets, bg, req, response>>

(* what the permit actions and the adapter actions leave alone *)
notPermitVars == <<serviceVars, adapterVars, frontVars, fn>>

notAdapterVars == <<serviceVars, permitVars, frontVars, fn>>

(* what the queue worker pool leaves alone *)
notQueueVars ==
    <<assets, bg, req, response, permitVars, adapterVars, frontVars, fn>>

(* what the auth handlers leave alone *)
notAuthVars ==
    <<serviceVars, permitVars, adapterVars, streams, assetVars, fn>>

(* what the asset handlers leave alone *)
notAssetVars ==
    <<store, clock, jobs, queue, running, wpc, wjob, wexc, temp, bg, req, response,
      permitVars, adapterVars, streams, authVars, fn>>

----------------------------------------------------------------------------
(* Bounds of the model *)

MaxJobs == 2
NumWorkers == 2
MaxQueue == 3
NumImageCallers == 11
NumVideoCallers == 4
ScriptLen == 5
NumStreams == 2
MaxTokens == 3
NumUsers == 2
NumClients == 2

JobIds == 1..MaxJobs
Workers == 1..NumWorkers
StreamIds == 1..NumStreams
TokenIds == 1..MaxTokens
UserIds == 1..NumUsers
Clients == 1..NumClients

(* Program constants *)

ZOMBIE_THRESHOLD_HOURS == 24

(* asyncio.Semaphore(10) and asyncio.Semaphore(3) *)
IMAGE_PERMITS == 10
VIDEO_PERMITS == 3

(* stop_after_attempt(5) of generate_image *)
IMAGE_MAX_ATTEMPTS == 5

(* stop_after_attempt(3) of _start_veo_operation *)
VIDEO_START_MAX_ATTEMPTS == 3

(* asyncio.sleep between two polls, in seconds *)
LRO_POLL_INTERVAL == 10

(* the seconds after which the poll loop gives up *)
LRO_MAX_WAIT_TIME == 600

(* httpx.AsyncClient(timeout=30.0): the longest a poll request waits *)
POLL_REQUEST_TIMEOUT == 30

JobTypes == {"text-to-image", "text-to-video", "image-to-video"}

ZombieMessage == "zombie: left processing for 24 hours or more"

(* str(e) of the TypeError that Python raises when a function is called    *)
(* with a keyword argument its signature does not declare.                 *)
OptionsTypeError == "got an unexpected keyword argument 'options'"

(* str(e) of the OSError that opening a missing file raises *)
ImageFileError == "[Errno 2] No such file or directory"

----------------------------------------------------------------------------
(* The durable job store (db.job) *)

(* assetId and resultUrl are the columns only the completion write sets *)
NoRow == [status |-> "absent", jobType |-> "none", createdAt |-> 0,
          stale |-> FALSE, errorMessage |-> "null",
          assetId |-> 0, resultUrl |-> "null"]

(* an update that writes the status column only *)
DbJobUpdateStatusOnly(st, j, status, msg) ==
    [st EXCEPT ![j] = [@ EXCEPT !.status = status, !.stale = FALSE]]

(* db.job.update(where, data): overlays data on one row; the store stamps  *)
(* updatedAt, so the row is no longer older than the zombie threshold.     *)
DbJobUpdate(st, j, status, msg) ==
    [st EXCEPT ![j] = [@ EXCEPT !.status = status, !.errorMessage = msg,
                                !.stale = FALSE]]

RowsWithStatus(st, s) == {j \in JobIds : st[j].status = s}

----------------------------------------------------------------------------
(* The in-memory job registry (JobManager) *)

NoLiveJob == [status |-> "absent", asset_id |-> 0, result_url |-> "null",
              error_message |-> "null", event |-> FALSE]

(* JobInfo(job_id): the dataclass defaults *)
JobInfo == [status |-> "pending", asset_id |-> 0, result_url |-> "null",
            error_message |-> "null", event |-> FALSE]

(* JobManager.create_job *)
CreateJob(reg, j) == [reg EXCEPT ![j] = JobInfo]

(* the fields of a JobInfo that callers pass to update_job *)
JobFields == {"status", "asset_id", "result_url", "error_message"}

(* setattr(job, key, value) for each keyword argument *)
SetAttrs(job, kwargs) ==
    [f \in DOMAIN job |-> IF f \in DOMAIN kwargs THEN kwargs[f] ELSE job[f]]

(* an update that creates the entry when the id is unknown *)
UpdateJobUpserts(reg, j, kwargs) ==
    [reg EXCEPT ![j] =
        [SetAttrs(IF reg[j].status = "absent" THEN JobInfo ELSE reg[j], kwargs)
            EXCEPT !.event = TRUE]]

(* JobManager.update_job(job_id, **kwargs): if the id is in the registry,  *)
(* sets each given field and then the entry's event; an unknown id changes *)
(* nothing.                                                                *)
UpdateJob(reg, j, kwargs) ==
    IF reg[j].status = "absent" THEN reg
    ELSE [reg EXCEPT ![j] = [SetAttrs(reg[j], kwargs) EXCEPT !.event = TRUE]]

(* update_job(job_id, status=...) *)
UpdateJobStatus(reg, j, status) == UpdateJob(reg, j, [status |-> status])

(* update_job(job_id, status="failed", error_message=...) *)
UpdateJobFailed(reg, j, msg) ==
    UpdateJob(reg, j, [status |-> "failed", error_message |-> msg])


----------------------------------------------------------------------------
(* Recovery and reaper (QueueWorker._cleanup_zombie_jobs, _recover_from_db) *)

(* a start() without the reaper *)
CleanupZombieJobsSkipped(st) == st

(* find_many(status = processing, updatedAt < now - 24h), each marked      *)
(* failed with the abandonment message.                                    *)
CleanupZombieJobs(st) ==
    [j \in JobIds |->
        IF st[j].status = "processing" /\ st[j].stale
        THEN [st[j] EXCEPT !.status = "failed", !.errorMessage = ZombieMessage,
                           !.stale = FALSE]
        ELSE st[j]]

(* a recovery that leaves the processing rows as they are *)
ResetProcessingSkipped(st) == st

(* find_many(status = processing), each flipped back to queued *)
ResetProcessing(st) ==
    [j \in JobIds |->
        IF st[j].status = "processing"
        THEN [st[j] EXCEPT !.status = "queued", !.stale = FALSE]
        ELSE st[j]]

(* order = {createdAt: asc}: the ids of S as a sequence, oldest first *)
RECURSIVE AscendingByCreatedAt(_, _)
AscendingByCreatedAt(st, S) ==
    IF S = {} THEN <<>>
    ELSE LET first == CHOOSE j \in S :
                          \A k \in S : st[j].createdAt <= st[k].createdAt
         IN  <<first>> \o AscendingByCreatedAt(st, S \ {first})

(* a recovery query without the status filter: every row of the store *)
QueuedJobsOfAnyStatus(st) ==
    AscendingByCreatedAt(st, {j \in JobIds : st[j].status # "absent"})

(* find_many(status = queued, order createdAt asc) *)
QueuedJobs(st) == AscendingByCreatedAt(st, RowsWithStatus(st, "queued"))

(* for each queued job: create the LiveJob unless one exists *)
EnsureLiveJobs(reg, ids) ==
    [j \in JobIds |->
        IF (\E i \in 1..Len(ids) : ids[i] = j) /\ reg[j].status = "absent"
        THEN JobInfo
        ELSE reg[j]]

(* the FIFO after recovery has put every queued id on it *)
RecoveredQueue(q, ids) == q \o ids

----------------------------------------------------------------------------
(* QueueWorker.start(num_workers): reaper, recovery, then num_workers      *)
(* worker tasks (lines 33-35).  It runs in the application's startup,      *)
(* before requests are served and after any earlier stop() has gathered    *)
(* its workers.                                                            *)
Start(num_workers) ==
    /\ ~running
    /\ LET reaped    == CleanupZombieJobs(store)
           recovered == ResetProcessing(reaped)
           ids       == QueuedJobs(recovered)
       IN  /\ store' = recovered
           /\ jobs' = EnsureLiveJobs(jobs, ids)
           /\ queue' = RecoveredQueue(queue, ids)
           /\ Len(queue) + Len(ids) <= MaxQueue
    /\ running' = TRUE
    /\ wpc' = [w \in Workers |-> IF w <= num_workers THEN "idle" ELSE "off"]
    /\ wjob' = [w \in Workers |-> 0]
    /\ wexc' = [w \in Workers |-> "null"]
    /\ UNCHANGED <<clock, temp>>
    /\ UNCHANGED notQueueVars

(* The worker's position when task.cancel() reaches it: CancelledError is  *)
(* raised at the await it is suspended on; it is not an Exception, so      *)
(* _process_job's handler does not run and _worker_loop breaks.            *)
Cancelled(pc) == "off"

(* QueueWorker.stop(): clears the flag, cancels every worker, gathers them *)
Stop ==
    /\ running
    /\ running' = FALSE
    /\ wpc' = [w \in Workers |-> Cancelled(wpc[w])]
    /\ wjob' = [w \in Workers |-> 0]
    /\ wexc' = [w \in Workers |-> "null"]
    /\ UNCHANGED <<store, clock, jobs, queue, temp>>
    /\ UNCHANGED notQueueVars

(* The process exits without stop(): memory is lost, the store remains *)
Crash ==
    /\ running \/ queue # <<>> \/ \E j \in JobIds : jobs[j].status # "absent"
    /\ running' = FALSE
    /\ jobs' = [j \in JobIds |-> NoLiveJob]
    /\ queue' = <<>>
    /\ wpc' = [w \in Workers |-> "off"]
    /\ wjob' = [w \in Workers |-> 0]
    /\ wexc' = [w \in Workers |-> "null"]
    /\ UNCHANGED <<store, clock, temp>>
    /\ UNCHANGED notQueueVars

(* Time passes while no worker runs: a row left processing becomes older   *)
(* than ZOMBIE_THRESHOLD_HOURS.                                            *)
Age(j) ==
    /\ ~running
    /\ store[j].status = "processing"
    /\ ~store[j].stale
    /\ store' = [store EXCEPT ![j].stale = TRUE]
    /\ UNCHANGED <<clock, jobs, queue, running, wpc, wjob, wexc, temp>>
    /\ UNCHANGED notQueueVars

(* QueueWorker.enqueue(job_id) *)
Enqueue(q, j) == Append(q, j)

(* A submission as section 2 of the specification describes it: write the  *)
(* job row as queued, create the LiveJob, enqueue the id.  The id is a     *)
(* fresh uuid4; the model takes the lowest id not used yet.                *)
SubmitJob(j, type) ==
    /\ running
    /\ Len(queue) < MaxQueue
    /\ store[j].status = "absent"
    /\ \A k \in JobIds : k < j => store[k].status # "absent"
    /\ store' = [store EXCEPT ![j] = [status |-> "queued", jobType |-> type,
                                      createdAt |-> clock + 1, stale |-> FALSE,
                                      errorMessage |-> "null",
                                      assetId |-> 0, resultUrl |-> "null"]]
    /\ clock' = clock + 1
    /\ jobs' = CreateJob(jobs, j)
    /\ queue' = Enqueue(queue, j)
    /\ temp' = IF type = "image-to-video" THEN temp \cup {j} ELSE temp
    /\ UNCHANGED <<running, wpc, wjob, wexc>>
    /\ UNCHANGED notQueueVars

----------------------------------------------------------------------------
(* The worker coroutine (QueueWorker._worker_loop, _process_job and the    *)
(* three _process_* methods), one action per stretch of code between two   *)
(* awaits that suspend.  JobManager's lock is never contended (no await    *)
(* inside it), so create_job and update_job run without suspending.        *)
(*                                                                         *)
(*   idle     in wait_for(self._queue.get(), timeout=1.0)                  *)
(*   find     in db.job.find_unique                                        *)
(*   markDb   in db.job.update(status = processing), not yet applied       *)
(*   markReg  the same call, applied by the store, the worker not resumed  *)
(*   readImg  in aiofiles open/read of the reference image                 *)
(*   failDb   in db.job.update(status = failed), not yet applied           *)
(*   failReg  the same call, applied by the store, the worker not resumed  *)
(*   off      not started, or left the loop                                *)

(* The outcome of the adapter call a worker makes.  All three call sites   *)
(* (queue_worker.py lines 150, 172, 198) pass options= by keyword, and     *)
(* none of generate_image, generate_video_from_text and                    *)
(* generate_video_from_image (vertex_ai.py lines 142, 199, 243) declares   *)
(* that parameter: the call raises TypeError before the adapter's body     *)
(* runs, so no permit is taken and the provider is not called.  Under      *)
(* tenacity's wrapper the TypeError is not a RetryableAPIError and is      *)
(* re-raised after one attempt.                                            *)
WorkerAdapterCall(type) == OptionsTypeError

(* wait_for(queue.get()) returns an id.  Idle workers are interchangeable  *)
(* (they differ in the number they log), so the lowest one takes it.       *)
Dequeue(w) ==
    /\ wpc[w] = "idle"
    /\ \A v \in Workers : v < w => wpc[v] # "idle"
    /\ queue # <<>>
    /\ wjob' = [wjob EXCEPT ![w] = Head(queue)]
    /\ UNCHANGED <<wexc, temp>>
    /\ queue' = Tail(queue)
    /\ wpc' = [wpc EXCEPT ![w] = "find"]
    /\ UNCHANGED <<store, clock, jobs, running>>
    /\ UNCHANGED notQueueVars

(* a guard that lets no row through *)
RunnableNever(row) == FALSE

(* _process_job's guard on the row it has just read *)
Runnable(row) == row.status = "queued"

(* find_unique returns: an absent row or a status other than queued makes  *)
(* _process_job return, and the loop goes back to the FIFO.                *)
FindJob(w) ==
    /\ wpc[w] = "find"
    /\ IF store[wjob[w]].status # "absent" /\ Runnable(store[wjob[w]])
       THEN /\ wpc' = [wpc EXCEPT ![w] = "markDb"]
            /\ UNCHANGED wjob
       ELSE /\ wpc' = [wpc EXCEPT ![w] = "idle"]
            /\ wjob' = [wjob EXCEPT ![w] = 0]
    /\ UNCHANGED <<wexc, temp>>
    /\ UNCHANGED <<store, clock, jobs, queue, running>>
    /\ UNCHANGED notQueueVars

(* the store applies db.job.update(status = processing) *)
MarkProcessingDb(w) ==
    /\ wpc[w] = "markDb"
    /\ store' = DbJobUpdate(store, wjob[w], "processing",
                            store[wjob[w]].errorMessage)
    /\ wpc' = [wpc EXCEPT ![w] = "markReg"]
    /\ UNCHANGED <<clock, jobs, queue, running, wjob, wexc, temp>>
    /\ UNCHANGED notQueueVars

(* the worker resumes: update_job(status = processing), then the adapter   *)
(* call (text jobs), whose exception the handler of _process_job catches,  *)
(* or the read of the reference image (image-to-video).                    *)
MarkProcessingRegistry(w) ==
    /\ wpc[w] = "markReg"
    /\ jobs' = UpdateJobStatus(jobs, wjob[w], "processing")
    /\ IF store[wjob[w]].jobType = "image-to-video"
       THEN /\ wpc' = [wpc EXCEPT ![w] = "readImg"]
            /\ UNCHANGED wexc
       ELSE /\ wpc' = [wpc EXCEPT ![w] = "failDb"]
            /\ wexc' = [wexc EXCEPT ![w] =
                           WorkerAdapterCall(store[wjob[w]].jobType)]
    /\ UNCHANGED <<store, clock, queue, running, wjob, temp>>
    /\ UNCHANGED notQueueVars

(* what aiofiles.open(image_path, "rb") and read() can do: give the bytes  *)
(* or raise an OSError (the uploaded file is missing or unreadable)        *)
ImageReads == {"bytes", ImageFileError}

(* the reference image is read and generate_video_from_image is called,    *)
(* or the read raises; either exception reaches the handler of             *)
(* _process_job                                                            *)
ReadImage(w, read) ==
    /\ wpc[w] = "readImg"
    /\ read = "bytes" => wjob[w] \in temp
    /\ wpc' = [wpc EXCEPT ![w] = "failDb"]
    /\ wexc' = [wexc EXCEPT ![w] =
                   IF read = "bytes"
                   THEN WorkerAdapterCall(store[wjob[w]].jobType)
                   ELSE read]
    /\ UNCHANGED <<store, clock, jobs, queue, running, wjob, temp>>
    /\ UNCHANGED notQueueVars

(* except Exception: the store applies update(status = failed, str(e)) *)
MarkFailedDb(w) ==
    /\ wpc[w] = "failDb"
    /\ store' = DbJobUpdate(store, wjob[w], "failed", wexc[w])
    /\ wpc' = [wpc EXCEPT ![w] = "failReg"]
    /\ UNCHANGED <<clock, jobs, queue, running, wjob, wexc, temp>>
    /\ UNCHANGED notQueueVars

(* the worker resumes: update_job(status = failed), task_done(), and the   *)
(* loop tests self._running (true while any worker is alive).              *)
MarkFailedRegistry(w) ==
    /\ wpc[w] = "failReg"
    /\ jobs' = UpdateJobFailed(jobs, wjob[w], wexc[w])
    /\ wpc' = [wpc EXCEPT ![w] = "idle"]
    /\ wjob' = [wjob EXCEPT ![w] = 0]
    /\ wexc' = [wexc EXCEPT ![w] = "null"]
    /\ UNCHANGED <<store, clock, queue, running, temp>>
    /\ UNCHANGED notQueueVars

----------------------------------------------------------------------------
(* Submission handlers and result cache (routers/generate.py) *)

(* Prompts are sequences of characters, so that strip() and lower() are    *)
(* computed and not assumed.                                               *)
RawPrompts == {<<" ", "A", " ">>, <<"b">>}

Models == {"imagen-3.0-fast", "veo-3.0-fast"}

Tokens == {"valid", "absent"}

(* the option fields a request sets (those that are not None) *)
OptionSets == {{}, {"seed"}}

Requests ==
    [kind : JobTypes, prompt : RawPrompts, model : Models,
     opts : OptionSets, token : Tokens]

(* the last request a handler received, with the job id it was given *)
Received(j, r) ==
    [job |-> j, kind |-> r.kind, prompt |-> r.prompt, model |-> r.model,
     opts |-> r.opts, token |-> r.token]

NoRequest ==
    [job |-> 0, kind |-> "none", prompt |-> <<>>, model |-> "none",
     opts |-> {}, token |-> "none"]

(* the background task function each endpoint adds *)
TaskOf(endpoint) ==
    CASE endpoint = "text-to-image" -> "process_image_generation"
      [] endpoint = "text-to-video" -> "process_video_from_text"
      [] endpoint = "image-to-video" -> "process_video_from_image"

Tasks == {TaskOf(k) : k \in JobTypes}

(* str.strip(): leading and trailing blanks removed *)
RECURSIVE StripLeft(_)
StripLeft(p) ==
    IF p # <<>> /\ Head(p) = " " THEN StripLeft(Tail(p)) ELSE p

RECURSIVE StripRight(_)
StripRight(p) ==
    IF p # <<>> /\ p[Len(p)] = " "
    THEN StripRight(SubSeq(p, 1, Len(p) - 1)) ELSE p

Strip(p) == StripRight(StripLeft(p))

(* str.lower() *)
LowerChar(c) ==
    CASE c = "A" -> "a"
      [] c = "B" -> "b"
      [] c = "C" -> "c"
      [] c = "D" -> "d"
      [] c = "E" -> "e"
      [] c = "F" -> "f"
      [] c = "G" -> "g"
      [] c = "H" -> "h"
      [] c = "I" -> "i"
      [] c = "J" -> "j"
      [] c = "K" -> "k"
      [] c = "L" -> "l"
      [] c = "M" -> "m"
      [] c = "N" -> "n"
      [] c = "O" -> "o"
      [] c = "P" -> "p"
      [] c = "Q" -> "q"
      [] c = "R" -> "r"
      [] c = "S" -> "s"
      [] c = "T" -> "t"
      [] c = "U" -> "u"
      [] c = "V" -> "v"
      [] c = "W" -> "w"
      [] c = "X" -> "x"
      [] c = "Y" -> "y"
      [] c = "Z" -> "z"
      [] OTHER -> c

Lower(p) == [i \in 1..Len(p) |-> LowerChar(p[i])]

(* prompt.strip().lower() *)
NormalizePrompt(p) == Lower(Strip(p))

(* The Asset rows the database holds when the process starts (rows of      *)
(* earlier completions, stored with the normalized prompt).  Row 1 is      *)
(* newer than row 2 and has the same fingerprint; row 3 is a video.        *)
SeedAssets ==
    <<[prompt |-> <<"a">>, model |-> "imagen-3.0-fast", assetType |-> "image",
       filePath |-> "/storage/images/one.png", createdAt |-> 2],
      [prompt |-> <<"a">>, model |-> "imagen-3.0-fast", assetType |-> "image",
       filePath |-> "/storage/images/two.png", createdAt |-> 1],
      [prompt |-> <<"a">>, model |-> "veo-3.0-fast", assetType |-> "video",
       filePath |-> "/storage/videos/three.mp4", createdAt |-> 3]>>

(* The rows that jobs submitted with options produced.  The table has no   *)
(* column for it: db.asset.create is the same statement for every job      *)
(* (generate.py lines 110-116, queue_worker.py lines 153-160) and stores   *)
(* the normalized prompt, the model and the asset type only.               *)
MadeWithOptions == {1}

AssetIds == 1..Len(SeedAssets)

(* a lookup that takes the oldest matching row *)
FindFirstAssetOldest(rows, prompt, model, type) ==
    LET match == {a \in rows : /\ SeedAssets[a].prompt = prompt
                               /\ SeedAssets[a].model = model
                               /\ SeedAssets[a].assetType = type}
    IN  IF match = {} THEN 0
        ELSE CHOOSE a \in match :
                 \A b \in match : SeedAssets[a].createdAt <= SeedAssets[b].createdAt

(* db.asset.find_first(where prompt, model, assetType; createdAt desc):    *)
(* the id of the newest matching row, 0 when none matches                  *)
FindFirstAsset(rows, prompt, model, type) ==
    LET match == {a \in rows : /\ SeedAssets[a].prompt = prompt
                               /\ SeedAssets[a].model = model
                               /\ SeedAssets[a].assetType = type}
    IN  IF match = {} THEN 0
        ELSE CHOOSE a \in match :
                 \A b \in match : SeedAssets[a].createdAt >= SeedAssets[b].createdAt

(* find_cached_asset(prompt, model, asset_type): the id of the cached      *)
(* Asset (its filePath is the result_url), 0 for a miss                    *)
FindCachedAsset(rows, prompt, model, type) ==
    LET asset == FindFirstAsset(rows, NormalizePrompt(prompt), model, type)
    IN  IF asset # 0 /\ SeedAssets[asset].filePath # "" THEN asset ELSE 0

(* a handler that consults the cache for every request *)
ConsultsCacheAlways(options) == TRUE

(* whether the handler consults the cache: "if not options" *)
ConsultsCache(options) == options = {}

(* JobManager.update_job(status = completed, asset_id, result_url) *)
UpdateJobCompleted(reg, j, asset, url) ==
    UpdateJob(reg, j, [status |-> "completed", asset_id |-> asset,
                       result_url |-> url])

(* uuid4(): a fresh id; the model takes the lowest id not used yet *)
FreshJobId(j) ==
    /\ jobs[j].status = "absent"
    /\ \A k \in JobIds : k < j => jobs[k].status # "absent"

(* text_to_image and text_to_video: no dependency authenticates the        *)
(* request, so r.token is not read.  A cache hit creates a completed       *)
(* LiveJob; otherwise the LiveJob is created and a background task is      *)
(* added, which runs after the response.                                   *)
TextToMedia(j, r, type) ==
    /\ FreshJobId(j)
    /\ LET cached == IF ConsultsCache(r.opts)
                     THEN FindCachedAsset(assets, r.prompt, r.model, type)
                     ELSE 0
       IN  IF cached # 0
           THEN /\ jobs' = UpdateJobCompleted(CreateJob(jobs, j), j, cached,
                                              SeedAssets[cached].filePath)
                /\ response' = [response EXCEPT ![j] = "completed"]
                /\ UNCHANGED bg
           ELSE /\ jobs' = CreateJob(jobs, j)
                /\ bg' = [bg EXCEPT ![j] = TaskOf(r.kind)]
                /\ response' = [response EXCEPT ![j] = "pending"]
    /\ req' = Received(j, r)
    /\ UNCHANGED <<store, clock, queue, running, wpc, wjob, wexc, temp, assets>>
    /\ UNCHANGED <<permitVars, adapterVars, frontVars, fn>>

TextToImage(j, r) == r.kind = "text-to-image" /\ TextToMedia(j, r, "image")

TextToVideo(j, r) == r.kind = "text-to-video" /\ TextToMedia(j, r, "video")

(* image_to_video: never consults the cache *)
ImageToVideo(j, r) ==
    /\ r.kind = "image-to-video"
    /\ FreshJobId(j)
    /\ jobs' = CreateJob(jobs, j)
    /\ bg' = [bg EXCEPT ![j] = TaskOf(r.kind)]
    /\ response' = [response EXCEPT ![j] = "pending"]
    /\ req' = Received(j, r)
    /\ UNCHANGED <<store, clock, queue, running, wpc, wjob, wexc, temp, assets>>
    /\ UNCHANGED <<permitVars, adapterVars, frontVars, fn>>

(* The outcome of the adapter call a background task makes: like the       *)
(* workers' call sites, generate.py lines 108, 124 and 140 pass options=   *)
(* to a method that does not declare it.                                   *)
BackgroundAdapterCall(task) == OptionsTypeError

(* process_image_generation, process_video_from_text and                   *)
(* process_video_from_image: update_job(processing), the adapter call,     *)
(* and on its exception update_job(failed, str(e)); nothing suspends in    *)
(* between.                                                                *)
RunBackgroundTask(j) ==
    /\ bg[j] \in Tasks
    /\ jobs' = UpdateJobFailed(UpdateJobStatus(jobs, j, "processing"), j,
                               BackgroundAdapterCall(bg[j]))
    /\ bg' = [bg EXCEPT ![j] = "done"]
    /\ UNCHANGED <<store, clock, queue, running, wpc, wjob, wexc, temp, assets, req, response>>
    /\ UNCHANGED <<permitVars, adapterVars, frontVars, fn>>

(* db.asset.delete(where id): the row's deletion by delete_asset *)
AssetRowDeleted(a) ==
    /\ a \in assets
    /\ assets' = assets \ {a}
    /\ UNCHANGED <<store, clock, jobs, queue, running, wpc, wjob, wexc, temp, bg, req, response>>
    /\ UNCHANGED <<permitVars, adapterVars, frontVars, fn>>

----------------------------------------------------------------------------
(* The permits of the remote call adapter (vertex_ai.py).  The callers are *)
(* the coroutines that run generate_image, generate_video_from_text or     *)
(* generate_video_from_image with the parameters the methods declare; they *)
(* are counted by position, a caller that is at no position is outside the *)
(* adapter.                                                                *)

NoImageCalls == [wait |-> 0, call |-> 0, backoff |-> 0]

NoVideoCalls ==
    [wait |-> 0, start |-> 0, startBackoff |-> 0, poll |-> 0, pollSleep |-> 0]

ImageCallers == img.wait + img.call + img.backoff

VideoCallers == vid.wait + vid.start + vid.startBackoff + vid.poll + vid.pollSleep

(* the image remote calls in progress *)
ImageInProgress == img.call

(* the video remote calls in progress: the LRO start with its retries and  *)
(* the polling, all inside "async with VIDEO_SEMAPHORE"                    *)
VideoInProgress == vid.start + vid.startBackoff + vid.poll + vid.pollSleep

(* a semaphore that admits a caller whatever its value *)
CanAcquireAlways(value) == TRUE

(* asyncio.Semaphore.acquire proceeds only while the value is positive *)
CanAcquire(value) == value > 0

(* generate_image is entered and reaches "async with IMAGE_SEMAPHORE" *)
GenerateImageEnter ==
    /\ ImageCallers < NumImageCallers
    /\ img' = [img EXCEPT !.wait = @ + 1]
    /\ UNCHANGED <<imageValue, videoValue, vid>>
    /\ UNCHANGED notPermitVars

(* the permit is taken and the provider call starts *)
ImageAcquire ==
    /\ img.wait > 0
    /\ CanAcquire(imageValue)
    /\ imageValue' = imageValue - 1
    /\ img' = [img EXCEPT !.wait = @ - 1, !.call = @ + 1]
    /\ UNCHANGED <<videoValue, vid>>
    /\ UNCHANGED notPermitVars

(* the call returns bytes, or raises for good (NonRetryableAPIError, or    *)
(* RetryableAPIError on the last attempt): the block is left, the permit   *)
(* released; the file is written outside the block                         *)
ImageCallEnds ==
    /\ img.call > 0
    /\ imageValue' = imageValue + 1
    /\ img' = [img EXCEPT !.call = @ - 1]
    /\ UNCHANGED <<videoValue, vid>>
    /\ UNCHANGED notPermitVars

(* the call raises RetryableAPIError: the block is left, the permit        *)
(* released, and tenacity sleeps outside the block                         *)
ImageCallRetryable ==
    /\ img.call > 0
    /\ imageValue' = imageValue + 1
    /\ img' = [img EXCEPT !.call = @ - 1, !.backoff = @ + 1]
    /\ UNCHANGED <<videoValue, vid>>
    /\ UNCHANGED notPermitVars

(* tenacity's sleep is over: the method body is entered again *)
ImageBackoffElapsed ==
    /\ img.backoff > 0
    /\ img' = [img EXCEPT !.backoff = @ - 1, !.wait = @ + 1]
    /\ UNCHANGED <<imageValue, videoValue, vid>>
    /\ UNCHANGED notPermitVars

(* a cancellation that leaves the block without releasing the permit *)
ImageCancelledLeaks(at) ==
    /\ img[at] > 0
    /\ img' = [img EXCEPT ![at] = @ - 1]
    /\ UNCHANGED <<imageValue, videoValue, vid>>
    /\ UNCHANGED notPermitVars

(* the caller's task is cancelled at the await it is at; "async with"      *)
(* releases the permit when the caller holds it                            *)
ImageCancelled(at) ==
    /\ img[at] > 0
    /\ img' = [img EXCEPT ![at] = @ - 1]
    /\ imageValue' = IF at = "call" THEN imageValue + 1 ELSE imageValue
    /\ UNCHANGED <<videoValue, vid>>
    /\ UNCHANGED notPermitVars

(* generate_video_from_text or generate_video_from_image is entered and    *)
(* reaches "async with VIDEO_SEMAPHORE"                                    *)
GenerateVideoEnter ==
    /\ VideoCallers < NumVideoCallers
    /\ vid' = [vid EXCEPT !.wait = @ + 1]
    /\ UNCHANGED <<imageValue, videoValue, img>>
    /\ UNCHANGED notPermitVars

(* the permit is taken and _start_veo_operation is called *)
VideoAcquire ==
    /\ vid.wait > 0
    /\ CanAcquire(videoValue)
    /\ videoValue' = videoValue - 1
    /\ vid' = [vid EXCEPT !.wait = @ - 1, !.start = @ + 1]
    /\ UNCHANGED <<imageValue, img>>
    /\ UNCHANGED notPermitVars

(* _start_veo_operation returns the operation name: _poll_operation posts  *)
StartOperationOk ==
    /\ vid.start > 0
    /\ vid' = [vid EXCEPT !.start = @ - 1, !.poll = @ + 1]
    /\ UNCHANGED <<imageValue, videoValue, img>>
    /\ UNCHANGED notPermitVars

(* _start_veo_operation raises RetryableAPIError: tenacity sleeps, inside  *)
(* the block                                                               *)
StartOperationRetryable ==
    /\ vid.start > 0
    /\ vid' = [vid EXCEPT !.start = @ - 1, !.startBackoff = @ + 1]
    /\ UNCHANGED <<imageValue, videoValue, img>>
    /\ UNCHANGED notPermitVars

StartBackoffElapsed ==
    /\ vid.startBackoff > 0
    /\ vid' = [vid EXCEPT !.startBackoff = @ - 1, !.start = @ + 1]
    /\ UNCHANGED <<imageValue, videoValue, img>>
    /\ UNCHANGED notPermitVars

(* _start_veo_operation raises for good: the block is left *)
StartOperationRaises ==
    /\ vid.start > 0
    /\ videoValue' = videoValue + 1
    /\ vid' = [vid EXCEPT !.start = @ - 1]
    /\ UNCHANGED <<imageValue, img>>
    /\ UNCHANGED notPermitVars

(* the poll answers "not done": asyncio.sleep(LRO_POLL_INTERVAL) *)
PollPending ==
    /\ vid.poll > 0
    /\ vid' = [vid EXCEPT !.poll = @ - 1, !.pollSleep = @ + 1]
    /\ UNCHANGED <<imageValue, videoValue, img>>
    /\ UNCHANGED notPermitVars

PollSleepElapsed ==
    /\ vid.pollSleep > 0
    /\ vid' = [vid EXCEPT !.pollSleep = @ - 1, !.poll = @ + 1]
    /\ UNCHANGED <<imageValue, videoValue, img>>
    /\ UNCHANGED notPermitVars

(* _poll_operation returns the result or raises (error result, status not  *)
(* 200, timeout): the block is left, the permit released                   *)
PollEnds ==
    /\ vid.poll > 0
    /\ videoValue' = videoValue + 1
    /\ vid' = [vid EXCEPT !.poll = @ - 1]
    /\ UNCHANGED <<imageValue, img>>
    /\ UNCHANGED notPermitVars

VideoCancelled(at) ==
    /\ vid[at] > 0
    /\ vid' = [vid EXCEPT ![at] = @ - 1]
    /\ videoValue' = IF at = "wait" THEN videoValue ELSE videoValue + 1
    /\ UNCHANGED <<imageValue, img>>
    /\ UNCHANGED notPermitVars

PermitsIdle ==
    /\ imageValue = IMAGE_PERMITS
    /\ videoValue = VIDEO_PERMITS
    /\ img = NoImageCalls
    /\ vid = NoVideoCalls

----------------------------------------------------------------------------
(* One invocation of the remote call adapter with its retry policy, for    *)
(* one job: generate_image (vertex_ai.py lines 135-197) or                 *)
(* generate_video_from_text (lines 199-241) with _start_veo_operation,     *)
(* _poll_operation and _extract_video_from_result.  The provider is        *)
(* scripted: script[i] is its answer to the i-th call of the invocation.   *)

(* The texts that provider errors and filter reasons carry *)
Texts ==
    {"429 RESOURCE_EXHAUSTED", "503 UNAVAILABLE", "400 INVALID_ARGUMENT",
     "400 blocked by SAFETY filters", "Violence", "SAFETY",
     "raiMediaFiltered", "500 INTERNAL", "internal error",
     "resource_exhausted", "503 blocked by safety", "INTERNAL: person",
     "violates Usage Guidelines", "usage guidelines",
     "Could Not Be Submitted", "could not be submitted",
     "RAIMEDIAFILTERED", "raimediafiltered", "Responsible AI",
     "responsible ai", "COPYRIGHT", "copyright", "Trademark", "trademark",
     "Person", "person", "CHILD", "child", "Blocked", "blocked",
     "person blocked by copyright", "child safety", "400 Bad Request"}

(* the characters of a text, and of a substring the code looks for *)
Spell(text) ==
    CASE text = "429 RESOURCE_EXHAUSTED" ->
            <<"4", "2", "9", " ", "R", "E", "S", "O", "U", "R", "C", "E",
             "_", "E", "X", "H", "A", "U", "S", "T", "E", "D">>
      [] text = "503 UNAVAILABLE" ->
            <<"5", "0", "3", " ", "U", "N", "A", "V", "A", "I", "L", "A",
             "B", "L", "E">>
      [] text = "400 INVALID_ARGUMENT" ->
            <<"4", "0", "0", " ", "I", "N", "V", "A", "L", "I", "D", "_",
             "A", "R", "G", "U", "M", "E", "N", "T">>
      [] text = "400 blocked by SAFETY filters" ->
            <<"4", "0", "0", " ", "b", "l", "o", "c", "k", "e", "d", " ",
             "b", "y", " ", "S", "A", "F", "E", "T", "Y", " ", "f", "i",
             "l", "t", "e", "r", "s">>
      [] text = "Violence" ->
            <<"V", "i", "o", "l", "e", "n", "c", "e">>
      [] text = "SAFETY" ->
            <<"S", "A", "F", "E", "T", "Y">>
      [] text = "raiMediaFiltered" ->
            <<"r", "a", "i", "M", "e", "d", "i", "a", "F", "i", "l", "t",
             "e", "r", "e", "d">>
      [] text = "500 INTERNAL" ->
            <<"5", "0", "0", " ", "I", "N", "T", "E", "R", "N", "A", "L">>
      [] text = "internal error" ->
            <<"i", "n", "t", "e", "r", "n", "a", "l", " ", "e", "r", "r",
             "o", "r">>
      [] text = "resource_exhausted" ->
            <<"r", "e", "s", "o", "u", "r", "c", "e", "_", "e", "x", "h",
             "a", "u", "s", "t", "e", "d">>
      [] text = "503 blocked by safety" ->
            <<"5", "0", "3", " ", "b", "l", "o", "c", "k", "e", "d", " ",
             "b", "y", " ", "s", "a", "f", "e", "t", "y">>
      [] text = "INTERNAL: person" ->
            <<"I", "N", "T", "E", "R", "N", "A", "L", ":", " ", "p", "e",
             "r", "s", "o", "n">>
      [] text = "violates Usage Guidelines" ->
            <<"v", "i", "o", "l", "a", "t", "e", "s", " ", "U", "s", "a",
             "g", "e", " ", "G", "u", "i", "d", "e", "l", "i", "n", "e",
             "s">>
      [] text = "usage guidelines" ->
            <<"u", "s", "a", "g", "e", " ", "g", "u", "i", "d", "e", "l",
             "i", "n", "e", "s">>
      [] text = "Could Not Be Submitted" ->
            <<"C", "o", "u", "l", "d", " ", "N", "o", "t", " ", "B", "e",
             " ", "S", "u", "b", "m", "i", "t", "t", "e", "d">>
      [] text = "could not be submitted" ->
            <<"c", "o", "u", "l", "d", " ", "n", "o", "t", " ", "b", "e",
             " ", "s", "u", "b", "m", "i", "t", "t", "e", "d">>
      [] text = "RAIMEDIAFILTERED" ->
            <<"R", "A", "I", "M", "E", "D", "I", "A", "F", "I", "L", "T",
             "E", "R", "E", "D">>
      [] text = "raimediafiltered" ->
            <<"r", "a", "i", "m", "e", "d", "i", "a", "f", "i", "l", "t",
             "e", "r", "e", "d">>
      [] text = "Responsible AI" ->
            <<"R", "e", "s", "p", "o", "n", "s", "i", "b", "l", "e", " ",
             "A", "I">>
      [] text = "responsible ai" ->
            <<"r", "e", "s", "p", "o", "n", "s", "i", "b", "l", "e", " ",
             "a", "i">>
      [] text = "COPYRIGHT" ->
            <<"C", "O", "P", "Y", "R", "I", "G", "H", "T">>
      [] text = "copyright" ->
            <<"c", "o", "p", "y", "r", "i", "g", "h", "t">>
      [] text = "Trademark" ->
            <<"T", "r", "a", "d", "e", "m", "a", "r", "k">>
      [] text = "trademark" ->
            <<"t", "r", "a", "d", "e", "m", "a", "r", "k">>
      [] text = "Person" ->
            <<"P", "e", "r", "s", "o", "n">>
      [] text = "person" ->
            <<"p", "e", "r", "s", "o", "n">>
      [] text = "CHILD" ->
            <<"C", "H", "I", "L", "D">>
      [] text = "child" ->
            <<"c", "h", "i", "l", "d">>
      [] text = "Blocked" ->
            <<"B", "l", "o", "c", "k", "e", "d">>
      [] text = "blocked" ->
            <<"b", "l", "o", "c", "k", "e", "d">>
      [] text = "person blocked by copyright" ->
            <<"p", "e", "r", "s", "o", "n", " ", "b", "l", "o", "c", "k",
             "e", "d", " ", "b", "y", " ", "c", "o", "p", "y", "r", "i",
             "g", "h", "t">>
      [] text = "child safety" ->
            <<"c", "h", "i", "l", "d", " ", "s", "a", "f", "e", "t", "y">>
      [] text = "400 Bad Request" ->
            <<"4", "0", "0", " ", "B", "a", "d", " ", "R", "e", "q", "u",
             "e", "s", "t">>
      [] text = "429" ->
            <<"4", "2", "9">>
      [] text = "RESOURCE_EXHAUSTED" ->
            <<"R", "E", "S", "O", "U", "R", "C", "E", "_", "E", "X", "H",
             "A", "U", "S", "T", "E", "D">>
      [] text = "503" ->
            <<"5", "0", "3">>
      [] text = "UNAVAILABLE" ->
            <<"U", "N", "A", "V", "A", "I", "L", "A", "B", "L", "E">>
      [] text = "500" ->
            <<"5", "0", "0">>
      [] text = "INTERNAL" ->
            <<"I", "N", "T", "E", "R", "N", "A", "L">>
      [] text = "safety" ->
            <<"s", "a", "f", "e", "t", "y">>
      [] OTHER -> <<>>

(* Python's `needle in hay` on strings *)
Contains(hay, needle) ==
    \E i \in 0..(Len(hay) - Len(needle)) :
        SubSeq(hay, i + 1, i + Len(needle)) = needle

(* the substrings that make an image error retryable, lines 174-182 *)
RetryableSubstrings ==
    {"429", "RESOURCE_EXHAUSTED", "503", "UNAVAILABLE", "500", "INTERNAL"}

(* _SAFETY_PATTERNS: the pattern and the sentence it stands for *)
SAFETY_PATTERNS ==
    <<[pattern |-> "usage guidelines", sentence |-> "ko: usage policy violated"],
      [pattern |-> "could not be submitted", sentence |-> "ko: submission refused"],
      [pattern |-> "raiMediaFiltered", sentence |-> "ko: content blocked by safety policy"],
      [pattern |-> "safety", sentence |-> "ko: blocked by safety policy"],
      [pattern |-> "responsible ai", sentence |-> "ko: blocked by AI ethics policy"],
      [pattern |-> "copyright", sentence |-> "ko: blocked by copyright policy"],
      [pattern |-> "trademark", sentence |-> "ko: blocked by trademark policy"],
      [pattern |-> "person", sentence |-> "ko: person generation restricted"],
      [pattern |-> "child", sentence |-> "ko: child content blocked"],
      [pattern |-> "blocked", sentence |-> "ko: blocked by content policy"]>>

(* _to_korean_safety_message: the sentence of the first pattern that the   *)
(* lowercased text contains, "None" when no pattern is contained.          *)
(* PatternsIn lists, for each text, the patterns of lines 90-91 that       *)
(* `pattern in lower` finds.                                               *)
PatternsIn ==
    [text \in Texts |->
        {i \in 1..Len(SAFETY_PATTERNS) :
             Contains(Lower(Spell(text)), Spell(SAFETY_PATTERNS[i].pattern))}]

ToKoreanSafetyMessage(text) ==
    LET hits == PatternsIn[text]
    IN  IF hits = {} THEN "None"
        ELSE SAFETY_PATTERNS[CHOOSE i \in hits : \A k \in hits : i <= k].sentence

(* the sentence _extract_video_from_result raises when no pattern matches  *)
FilteredFallback == "ko: generated content blocked by safety policy"

(* what image_model.generate_images does: returns bytes or raises with a   *)
(* text                                                                    *)
ImageAnswers ==
    {[ok |-> TRUE, text |-> ""]}
        \cup {[ok |-> FALSE, text |-> t] :
                  t \in {"429 RESOURCE_EXHAUSTED", "503 UNAVAILABLE",
                         "400 INVALID_ARGUMENT", "400 blocked by SAFETY filters"}}

(* the HTTP responses of the Veo endpoints: to predictLongRunning a status *)
(* with a text, to fetchPredictOperation a status and, under 200, an       *)
(* operation that is running, done with a video, done with filtered media  *)
(* and its reasons, done with an error field ("error"), or not done with   *)
(* an error field ("runningError"); text is the error's message            *)
VideoAnswers ==
    {[status |-> 200, body |-> b, reasons |-> <<>>, text |-> "",
      locations |-> IF b = "video" THEN {1} ELSE {}] :
         b \in {"running", "video", "filtered"}}
        \cup {[status |-> 200, body |-> b, reasons |-> <<>>, text |-> "Violence",
               locations |-> {}] :
                  b \in {"error", "runningError"}}
        \cup {[status |-> 200, body |-> "filtered", reasons |-> <<t>>, text |-> "",
               locations |-> {}] :
                  t \in {"Violence", "SAFETY"}}
        \cup {[status |-> 429, body |-> "", reasons |-> <<>>,
               text |-> "429 RESOURCE_EXHAUSTED", locations |-> {}],
              [status |-> 503, body |-> "", reasons |-> <<>>,
               text |-> "503 UNAVAILABLE", locations |-> {}],
              [status |-> 400, body |-> "", reasons |-> <<>>,
               text |-> "400 INVALID_ARGUMENT", locations |-> {}]}

EndpointAnswers == ImageAnswers \cup VideoAnswers

Scripts(k) ==
    [1..ScriptLen -> IF k = "image" THEN ImageAnswers ELSE VideoAnswers]

NoOutcome == [result |-> "none", message |-> ""]

Returned == [result |-> "returned", message |-> ""]

Raised(class, msg) == [result |-> class, message |-> msg]

(* what the caller's handler does with the adapter's outcome: _process_job *)
(* lines 140-144 write failed with str(e); _process_image lines 152-166    *)
(* write completed after a return                                          *)
JobAfter(o) ==
    IF o.result = "returned"
    THEN [status |-> "completed", errorMessage |-> "null"]
    ELSE [status |-> "failed", errorMessage |-> o.message]

(* _process_job finds the job queued and _process_image writes processing, *)
(* queue_worker.py lines 117-130 and 147-148                               *)
WorkerPicksUpImageJob ==
    /\ kind = "image"
    /\ caller = "none"
    /\ jobStatus = "queued"
    /\ caller' = "worker"
    /\ jobStatus' = "processing"
    /\ UNCHANGED <<script, kind, apc, attempt, calls, outcome, jobError, lro>>
    /\ UNCHANGED notAdapterVars

(* _process_image calls generate_image(prompt, job_id, options=), line     *)
(* 150; the exception reaches _process_job's handler (lines 140-144),      *)
(* which writes failed                                                     *)
WorkerImageCall ==
    /\ kind = "image"
    /\ caller = "worker"
    /\ jobStatus = "processing"
    /\ LET o == Raised("TypeError", WorkerAdapterCall("text-to-image"))
       IN  /\ outcome' = o
           /\ jobStatus' = JobAfter(o).status
           /\ jobError' = JobAfter(o).errorMessage
    /\ apc' = "done"
    /\ UNCHANGED <<script, kind, caller, attempt, calls, lro>>
    /\ UNCHANGED notAdapterVars

(* _process_video_text: lines 169-170 write processing *)
WorkerPicksUpVideoJob ==
    /\ kind = "video"
    /\ caller = "none"
    /\ jobStatus = "queued"
    /\ caller' = "worker"
    /\ jobStatus' = "processing"
    /\ UNCHANGED <<script, kind, apc, attempt, calls, outcome, jobError, lro>>
    /\ UNCHANGED notAdapterVars

(* _process_video_text calls generate_video_from_text(prompt, job_id,      *)
(* options=), line 172                                                     *)
WorkerVideoCall ==
    /\ kind = "video"
    /\ caller = "worker"
    /\ jobStatus = "processing"
    /\ LET o == Raised("TypeError", WorkerAdapterCall("text-to-video"))
       IN  /\ outcome' = o
           /\ jobStatus' = JobAfter(o).status
           /\ jobError' = JobAfter(o).errorMessage
    /\ apc' = "done"
    /\ UNCHANGED <<script, kind, caller, attempt, calls, lro>>
    /\ UNCHANGED notAdapterVars

(* generate_image(prompt, job_id) is invoked as declared: tenacity makes   *)
(* the first attempt and the provider call starts                         *)
GenerateImage ==
    /\ kind = "image"
    /\ caller = "none"
    /\ caller' = "direct"
    /\ apc' = "call"
    /\ attempt' = 1
    /\ UNCHANGED <<script, kind, calls, outcome, jobStatus, jobError, lro>>
    /\ UNCHANGED notAdapterVars

(* lines 174-182: the error text contains a retryable substring *)
RetryableTexts ==
    {text \in Texts :
         \E s \in RetryableSubstrings : Contains(Spell(text), Spell(s))}

IsRetryable(text) == text \in RetryableTexts

(* the except clause with the safety translation tried first *)
ClassifyImageErrorSafetyFirst(text) ==
    LET korean == ToKoreanSafetyMessage(text)
    IN  IF korean # "None" THEN Raised("NonRetryableAPIError", korean)
        ELSE IF IsRetryable(text) THEN Raised("RetryableAPIError", text)
        ELSE Raised("NonRetryableAPIError", text)

(* lines 172-188: the exception an image error becomes *)
ClassifyImageError(text) ==
    IF IsRetryable(text)
    THEN Raised("RetryableAPIError", text)
    ELSE LET korean == ToKoreanSafetyMessage(text)
         IN  Raised("NonRetryableAPIError", IF korean # "None" THEN korean ELSE text)

(* image_model.generate_images answers: bytes end the invocation; a        *)
(* RetryableAPIError is retried by tenacity unless this was attempt 5 and  *)
(* is re-raised then; a NonRetryableAPIError is raised at once             *)
ImageEndpointAnswers ==
    /\ apc = "call"
    /\ calls < ScriptLen
    /\ calls' = calls + 1
    /\ LET answer == script[calls + 1]
           error == ClassifyImageError(answer.text)
       IN  CASE answer.ok ->
                    apc' = "done" /\ outcome' = Returned
             [] ~answer.ok /\ error.result = "RetryableAPIError"
                           /\ attempt < IMAGE_MAX_ATTEMPTS ->
                    apc' = "backoff" /\ outcome' = outcome
             [] OTHER ->
                    apc' = "done" /\ outcome' = error
    /\ UNCHANGED <<script, kind, caller, attempt, jobStatus, jobError, lro>>
    /\ UNCHANGED notAdapterVars

(* wait_exponential is over: the next attempt *)
ImageRetry ==
    /\ apc = "backoff"
    /\ apc' = "call"
    /\ attempt' = attempt + 1
    /\ UNCHANGED <<script, kind, caller, calls, outcome, jobStatus, jobError, lro>>
    /\ UNCHANGED notAdapterVars

(* generate_video_from_text(prompt, job_id) is invoked as declared and     *)
(* calls _start_veo_operation: tenacity's first attempt posts              *)
GenerateVideo ==
    /\ kind = "video"
    /\ caller = "none"
    /\ caller' = "direct"
    /\ apc' = "start"
    /\ attempt' = 1
    /\ UNCHANGED <<script, kind, calls, outcome, jobStatus, jobError, lro>>
    /\ UNCHANGED notAdapterVars

(* lines 336-345: the exception a start response becomes, NoOutcome for    *)
(* status 200                                                              *)
ClassifyStartResponse(answer) ==
    IF answer.status = 429 THEN Raised("RetryableAPIError", "Rate limit exceeded")
    ELSE IF answer.status >= 500 THEN Raised("RetryableAPIError", "Server error")
    ELSE IF answer.status # 200
         THEN LET korean == ToKoreanSafetyMessage(answer.text)
              IN  Raised("NonRetryableAPIError",
                         IF korean # "None" THEN korean ELSE "Client error")
    ELSE NoOutcome

(* predictLongRunning answers: 200 starts the polling; a RetryableAPIError *)
(* is retried unless this was attempt 3                                    *)
StartEndpointAnswers ==
    /\ apc = "start"
    /\ calls < ScriptLen
    /\ calls' = calls + 1
    /\ LET error == ClassifyStartResponse(script[calls + 1])
       IN  CASE error = NoOutcome ->
                    apc' = "poll" /\ outcome' = outcome
             [] error.result = "RetryableAPIError"
                    /\ attempt < VIDEO_START_MAX_ATTEMPTS ->
                    apc' = "startBackoff" /\ outcome' = outcome
             [] OTHER ->
                    apc' = "done" /\ outcome' = error
    /\ UNCHANGED <<script, kind, caller, attempt, jobStatus, jobError, lro>>
    /\ UNCHANGED notAdapterVars

StartRetry ==
    /\ apc = "startBackoff"
    /\ apc' = "start"
    /\ attempt' = attempt + 1
    /\ UNCHANGED <<script, kind, caller, calls, outcome, jobStatus, jobError, lro>>
    /\ UNCHANGED notAdapterVars

(* the five places _extract_video_from_result probes for the video, in the *)
(* order of lines 450-486; an answer's locations are the indexes of those  *)
(* its result carries                                                      *)
ProbeLocations ==
    <<"predictions[0].bytesBase64Encoded",
      "predictions[0].video.bytesBase64Encoded",
      "videos[0].bytesBase64Encoded",
      "generatedSamples[0].video.bytesBase64Encoded",
      "video.bytesBase64Encoded">>

(* the base64 text a result carries at its i-th location *)
Payload(i) ==
    CASE i = 1 -> "dmlkZW8x"
      [] i = 2 -> "dmlkZW8y"
      [] i = 3 -> "dmlkZW8z"
      [] i = 4 -> "dmlkZW80"
      [] i = 5 -> "dmlkZW81"

(* base64.b64decode *)
B64Decode(encoded) ==
    CASE encoded = "dmlkZW8x" -> "video1"
      [] encoded = "dmlkZW8y" -> "video2"
      [] encoded = "dmlkZW8z" -> "video3"
      [] encoded = "dmlkZW80" -> "video4"
      [] encoded = "dmlkZW81" -> "video5"
      [] OTHER -> "binascii.Error"

(* the probes tried in the reverse order *)
VideoBytesLastLocation(answer) ==
    IF answer.locations = {} THEN "none"
    ELSE B64Decode(Payload(CHOOSE i \in answer.locations :
                               \A k \in answer.locations : i >= k))

(* lines 450-486: the bytes of the first location that is present, "none"  *)
(* when the probes run out                                                 *)
VideoBytes(answer) ==
    IF answer.locations = {} THEN "none"
    ELSE B64Decode(Payload(CHOOSE i \in answer.locations :
                               \A k \in answer.locations : i <= k))

(* lines 492-495: the exception of line 492 wrapped by the handler *)
ExtractionFailed ==
    "Failed to extract video from response: Could not find video data in result"

(* _extract_video_from_result, lines 440-446 and 448-495, on the result of *)
(* a finished operation                                                    *)
ExtractVideoFromResult(answer) ==
    IF answer.body = "filtered"
    THEN LET reason == IF answer.reasons # <<>> THEN answer.reasons[1]
                       ELSE "raiMediaFiltered"
             korean == ToKoreanSafetyMessage(reason)
         IN  Raised("Exception", IF korean # "None" THEN korean ELSE FilteredFallback)
    ELSE IF VideoBytes(answer) = "none" THEN Raised("Exception", ExtractionFailed)
    ELSE Returned

(* the provider's answer to the i-th call of the invocation; after the     *)
(* script's end it keeps giving the script's last answer                   *)
AnswerTo(i) == script[IF i <= ScriptLen THEN i ELSE ScriptLen]

(* the poll loop before its first iteration: start_time = time.time() *)
NoPoll == [elapsed |-> 0, polls |-> 0]

(* how long a poll request can take, in seconds *)
PollRequestSeconds == {0, POLL_REQUEST_TIMEOUT}

(* result.get("done") *)
Done(answer) == answer.body \in {"video", "filtered", "error"}

(* "error" in result *)
HasError(answer) == answer.body \in {"error", "runningError"}

(* lines 409-413: the exception the error of a finished operation becomes *)
OperationError(answer) ==
    LET korean == ToKoreanSafetyMessage(answer.text)
    IN  Raised("Exception",
               IF korean # "None" THEN korean ELSE "Veo operation failed")

(* a loop that does not look at done *)
PollResultNeverDone(answer) ==
    IF answer.status # 200 THEN Raised("Exception", "Failed to poll operation")
    ELSE NoOutcome

(* a loop that looks at the error field whether or not done is set *)
PollResultErrorFirst(answer) ==
    IF answer.status # 200 THEN Raised("Exception", "Failed to poll operation")
    ELSE IF HasError(answer) THEN OperationError(answer)
    ELSE IF Done(answer) THEN ExtractVideoFromResult(answer)
    ELSE NoOutcome

(* lines 394-417 followed by the caller's _extract_video_from_result: what *)
(* a poll response makes the invocation return or raise, NoOutcome when    *)
(* the loop goes on to sleep                                               *)
PollResult(answer) ==
    IF answer.status # 200 THEN Raised("Exception", "Failed to poll operation")
    ELSE IF Done(answer)
         THEN IF HasError(answer) THEN OperationError(answer)
              ELSE ExtractVideoFromResult(answer)
    ELSE NoOutcome

(* "if elapsed > LRO_MAX_WAIT_TIME", line 390 *)
TimedOut(seconds) == seconds > LRO_MAX_WAIT_TIME

(* the top of the loop finds the time over: TimeoutError, lines 387-391 *)
PollTimesOut ==
    /\ apc = "poll"
    /\ TimedOut(lro.elapsed)
    /\ apc' = "done"
    /\ outcome' = Raised("TimeoutError", "Veo operation timed out after 600 seconds")
    /\ UNCHANGED <<script, kind, caller, attempt, calls, jobStatus, jobError, lro>>
    /\ UNCHANGED notAdapterVars

(* the top of the loop finds time left and posts to fetchPredictOperation, *)
(* which answers after d seconds: the invocation ends or the loop sleeps   *)
PollEndpointAnswers(d) ==
    /\ apc = "poll"
    /\ ~TimedOut(lro.elapsed)
    /\ calls' = calls + 1
    /\ lro' = [elapsed |-> lro.elapsed + d, polls |-> lro.polls + 1]
    /\ LET result == PollResult(AnswerTo(calls + 1))
       IN  IF result = NoOutcome
           THEN apc' = "pollSleep" /\ outcome' = outcome
           ELSE apc' = "done" /\ outcome' = result
    /\ UNCHANGED <<script, kind, caller, attempt, jobStatus, jobError>>
    /\ UNCHANGED notAdapterVars

(* asyncio.sleep(LRO_POLL_INTERVAL) is over: the next iteration *)
PollAgain ==
    /\ apc = "pollSleep"
    /\ apc' = "poll"
    /\ lro' = [lro EXCEPT !.elapsed = @ + LRO_POLL_INTERVAL]
    /\ UNCHANGED <<script, kind, caller, attempt, calls, outcome, jobStatus, jobError>>
    /\ UNCHANGED notAdapterVars

AdapterIdle ==
    /\ caller = "none"
    /\ apc = "idle"
    /\ attempt = 0
    /\ calls = 0
    /\ outcome = NoOutcome
    /\ jobStatus = "queued"
    /\ jobError = "null"
    /\ lro = NoPoll

(* the script and kind that the other specifications keep *)
NoScript ==
    /\ kind = "image"
    /\ script = [i \in 1..ScriptLen |-> [ok |-> TRUE, text |-> ""]]

----------------------------------------------------------------------------
(* The status stream (generate.py, stream_job_status) over the registry.   *)
(* A stream is the handler and its event_generator; its positions are      *)
(* "idle" (no request yet), "404", "opened" (the response is returned, the *)
(* generator has not run), "sent" (suspended in a yield while the frame is *)
(* written), "wait" (suspended in job._event.wait()), "woken" (the wait's  *)
(* future is resolved, the generator has not run yet) and "closed".        *)
(* The fields opened, updates and orderly record, for the properties, the  *)
(* snapshot the handler found, the snapshots that the updates since then   *)
(* produced, and whether each of them found the stream at "wait".          *)

(* _job_data(j): the fields a frame carries beside the job id *)
JobData(info) ==
    [status |-> info.status, asset_id |-> info.asset_id,
     result_url |-> info.result_url, error_message |-> info.error_message]

NoStream ==
    [pc |-> "idle", job |-> 0, frames |-> <<>>,
     opened |-> JobData(NoLiveJob), updates |-> <<>>, orderly |-> TRUE]

(* a generator that returns only after a completed frame *)
ClosesOnCompletedOnly(status) == status = "completed"

(* "if job.status in ("completed", "failed"): return", lines 268 and 278 *)
ClosesOn(status) == status \in {"completed", "failed"}

(* stream_job_status: 404 for an unknown job id, otherwise the streaming   *)
(* response with the generator over the registry's entry                   *)
StreamJobStatus(s, j) ==
    /\ streams[s].pc = "idle"
    /\ streams' = [streams EXCEPT ![s] =
           IF jobs[j].status = "absent"
           THEN [@ EXCEPT !.pc = "404"]
           ELSE [@ EXCEPT !.pc = "opened", !.job = j,
                          !.opened = JobData(jobs[j])]]
    /\ UNCHANGED <<store, clock, jobs, queue, running, wpc, wjob, wexc, temp,
                   assets, bg, req, response>>
    /\ UNCHANGED besideStreams

(* the generator's first run: the frame of the current state, line 265 *)
EventGeneratorStarts(s) ==
    /\ streams[s].pc = "opened"
    /\ streams' = [streams EXCEPT ![s] =
           [@ EXCEPT !.pc = "sent", !.frames = <<JobData(jobs[streams[s].job])>>]]
    /\ UNCHANGED <<store, clock, jobs, queue, running, wpc, wjob, wexc, temp,
                   assets, bg, req, response>>
    /\ UNCHANGED besideStreams

(* the generator resumes from a yield: it returns when the entry's status  *)
(* is terminal, otherwise it clears the event and waits, lines 268-274     *)
EventGeneratorResumes(s) ==
    /\ streams[s].pc = "sent"
    /\ LET j == streams[s].job
       IN  IF ClosesOn(jobs[j].status)
           THEN /\ streams' = [streams EXCEPT ![s].pc = "closed"]
                /\ UNCHANGED jobs
           ELSE /\ streams' = [streams EXCEPT ![s].pc = "wait"]
                /\ jobs' = [jobs EXCEPT ![j].event = FALSE]
    /\ UNCHANGED <<store, clock, queue, running, wpc, wjob, wexc, temp,
                   assets, bg, req, response>>
    /\ UNCHANGED besideStreams

(* a generator that sends again the snapshot the handler took *)
EventGeneratorWakesStale(s) ==
    /\ streams[s].pc = "woken"
    /\ streams' = [streams EXCEPT ![s] =
           [@ EXCEPT !.pc = "sent", !.frames = Append(@, streams[s].opened)]]
    /\ UNCHANGED <<store, clock, jobs, queue, running, wpc, wjob, wexc, temp,
                   assets, bg, req, response>>
    /\ UNCHANGED besideStreams

(* the generator resumes from the wait: the frame of the current state,    *)
(* line 276                                                                *)
EventGeneratorWakes(s) ==
    /\ streams[s].pc = "woken"
    /\ streams' = [streams EXCEPT ![s] =
           [@ EXCEPT !.pc = "sent",
                     !.frames = Append(@, JobData(jobs[streams[s].job]))]]
    /\ UNCHANGED <<store, clock, jobs, queue, running, wpc, wjob, wexc, temp,
                   assets, bg, req, response>>
    /\ UNCHANGED besideStreams

(* asyncio.Event.set() by update_job on job j, as the streams see it: the  *)
(* waiting generators of that job are woken.  snaps are the snapshots that *)
(* the updates of this step produced, in their order.                      *)
EventSet(strs, j, snaps) ==
    [s \in StreamIds |->
        IF strs[s].job # j \/ strs[s].pc \in {"idle", "404"} THEN strs[s]
        ELSE [strs[s] EXCEPT
                 !.pc = IF @ = "wait" THEN "woken" ELSE @,
                 !.updates = @ \o snaps,
                 !.orderly = @ /\ strs[s].pc = "wait" /\ Len(snaps) = 1]]

(* The callers of update_job: the background tasks of generate.py, lines   *)
(* 103-148.  The adapter call suspends the task between the update to      *)
(* processing and the update to completed or failed when the adapter is    *)
(* entered; the call as written raises before suspending.                  *)

(* update_job(status = processing), then the task suspends in the adapter *)
TaskMarksProcessing(j) ==
    /\ jobs[j].status = "pending"
    /\ jobs' = UpdateJobStatus(jobs, j, "processing")
    /\ streams' = EventSet(streams, j, <<JobData(jobs'[j])>>)
    /\ UNCHANGED <<store, clock, queue, running, wpc, wjob, wexc, temp,
                   assets, bg, req, response>>
    /\ UNCHANGED besideStreams

(* db.asset.create and update_job(completed, asset_id, result_url) *)
TaskCompletes(j, a) ==
    /\ jobs[j].status = "processing"
    /\ jobs' = UpdateJobCompleted(jobs, j, a, SeedAssets[a].filePath)
    /\ streams' = EventSet(streams, j, <<JobData(jobs'[j])>>)
    /\ UNCHANGED <<store, clock, queue, running, wpc, wjob, wexc, temp,
                   assets, bg, req, response>>
    /\ UNCHANGED besideStreams

(* update_job(failed, str(e)) for an exception of the entered adapter *)
TaskFails(j) ==
    /\ jobs[j].status = "processing"
    /\ jobs' = UpdateJobFailed(jobs, j, "NonRetryableAPIError")
    /\ streams' = EventSet(streams, j, <<JobData(jobs'[j])>>)
    /\ UNCHANGED <<store, clock, queue, running, wpc, wjob, wexc, temp,
                   assets, bg, req, response>>
    /\ UNCHANGED besideStreams

(* the task as written: update_job(processing), the adapter call raises    *)
(* TypeError at once, update_job(failed, str(e)); nothing suspends in      *)
(* between                                                                 *)
TaskFailsAtOnce(j) ==
    /\ jobs[j].status = "pending"
    /\ LET first == UpdateJobStatus(jobs, j, "processing")
           second == UpdateJobFailed(first, j, OptionsTypeError)
       IN  /\ jobs' = second
           /\ streams' = EventSet(streams, j, <<JobData(first[j]), JobData(second[j])>>)
    /\ UNCHANGED <<store, clock, queue, running, wpc, wjob, wexc, temp,
                   assets, bg, req, response>>
    /\ UNCHANGED besideStreams

(* the registry entries a stream can find: none, a created job, or a job   *)
(* that was completed from the cache when it was created                   *)
LiveJobsAtConnect ==
    {NoLiveJob, JobInfo}
        \cup {[JobInfo EXCEPT !.status = "completed", !.asset_id = a,
                              !.result_url = SeedAssets[a].filePath,
                              !.event = TRUE] : a \in AssetIds}

StreamsIdle == streams = [s \in StreamIds |-> NoStream]

----------------------------------------------------------------------------
(* Refresh tokens (services/auth.py, routers/auth.py).  A token string is  *)
(* a number: uuid4() gives a string never given before, the model the      *)
(* lowest number not given yet; 0 is a string that was never issued.  An   *)
(* access token is modelled by the user id in its "sub".  Each client has  *)
(* one request at a time; a handler is split where it awaits the           *)
(* database between reading a row and deleting it.                         *)

NoToken == [userId |-> 0, expired |-> FALSE]

NoAuthRequest ==
    [op |-> "none", pc |-> "idle", token |-> 0, rt |-> NoToken,
     status |-> 0, detail |-> "", access |-> 0, refresh |-> 0]

(* the token strings given so far are 1..issued *)
FreshToken(t) ==
    /\ refreshtoken[t] = NoToken
    /\ t \notin spent.given
    /\ \A k \in TokenIds : k < t => k \in spent.given

(* create_refresh_token(user_id): db.refreshtoken.create *)
CreateRefreshToken(table, t, u) ==
    [table EXCEPT ![t] = [userId |-> u, expired |-> FALSE]]

(* a delete that removes nothing *)
DeleteNothing(table, t) == table

(* a delete that removes every row, as delete_many without a filter *)
DeleteEveryToken(table, t) == [k \in TokenIds |-> NoToken]

(* db.refreshtoken.delete(where id): the row is removed; a row already     *)
(* removed leaves the table as it is                                       *)
DeleteRefreshToken(table, t) ==
    IF t \in TokenIds THEN [table EXCEPT ![t] = NoToken] ELSE table

(* db.refreshtoken.find_unique(where token) *)
FindRefreshToken(table, t) ==
    IF t \in TokenIds THEN table[t] ELSE NoToken

Respond(r, status, detail, access, refresh) ==
    [r EXCEPT !.pc = "done", !.status = status, !.detail = detail,
              !.access = access, !.refresh = refresh]

(* login: wrong credentials give 401; otherwise an access token and a new  *)
(* stored refresh token                                                    *)
Login(c, u, ok, t) ==
    /\ authReq[c].pc = "idle"
    /\ IF ok
       THEN /\ FreshToken(t)
            /\ refreshtoken' = CreateRefreshToken(refreshtoken, t, u)
            /\ spent' = [spent EXCEPT !.given = @ \cup {t}]
            /\ authReq' = [authReq EXCEPT ![c] =
                   Respond([@ EXCEPT !.op = "login"], 200, "", u, t)]
       ELSE /\ t = 1
            /\ authReq' = [authReq EXCEPT ![c] =
                   Respond([@ EXCEPT !.op = "login"], 401, "invalid_credentials", 0, 0)]
            /\ UNCHANGED <<refreshtoken, spent>>
    /\ UNCHANGED notAuthVars

(* rotate_refresh_token, lines 63-71: the row is looked up; no row gives   *)
(* 401 token_reuse_detected                                                *)
RefreshFind(c, t) ==
    /\ authReq[c].pc = "idle"
    /\ LET rt == FindRefreshToken(refreshtoken, t)
           r == [authReq[c] EXCEPT !.op = "refresh", !.token = t, !.rt = rt]
       IN  authReq' = [authReq EXCEPT ![c] =
               IF rt = NoToken
               THEN Respond(r, 401, "token_reuse_detected", 0, 0)
               ELSE [r EXCEPT !.pc = "found"]]
    /\ UNCHANGED <<refreshtoken, spent>>
    /\ UNCHANGED notAuthVars

(* lines 73-87: an expired row is deleted and gives 401; otherwise the row *)
(* is deleted and a new access token and a new stored refresh token are    *)
(* issued for rt.userId                                                    *)
RefreshRotate(c, t) ==
    /\ authReq[c].op = "refresh"
    /\ authReq[c].pc = "found"
    /\ LET old == authReq[c].token
           rt == authReq[c].rt
       IN  IF rt.expired
           THEN /\ t = 1
                /\ refreshtoken' = DeleteRefreshToken(refreshtoken, old)
                /\ authReq' = [authReq EXCEPT ![c] =
                       Respond(@, 401, "refresh_token_expired", 0, 0)]
                /\ UNCHANGED spent
           ELSE /\ FreshToken(t)
                /\ refreshtoken' =
                       CreateRefreshToken(DeleteRefreshToken(refreshtoken, old),
                                          t, rt.userId)
                /\ authReq' = [authReq EXCEPT ![c] =
                       Respond(@, 200, "", rt.userId, t)]
                /\ spent' = [spent EXCEPT !.given = @ \cup {t},
                                          !.rotated = @ \cup {old}]
    /\ UNCHANGED notAuthVars

(* logout and revoke_token, lines 93-95: the row is looked up; no row      *)
(* gives 200 at once                                                       *)
LogoutFind(c, t) ==
    /\ authReq[c].pc = "idle"
    /\ LET rt == FindRefreshToken(refreshtoken, t)
           r == [authReq[c] EXCEPT !.op = "logout", !.token = t, !.rt = rt]
       IN  authReq' = [authReq EXCEPT ![c] =
               IF rt = NoToken
               THEN Respond(r, 200, "logged_out", 0, 0)
               ELSE [r EXCEPT !.pc = "found"]]
    /\ UNCHANGED <<refreshtoken, spent>>
    /\ UNCHANGED notAuthVars

(* lines 96-97: the row found is deleted, then 200 *)
LogoutDelete(c) ==
    /\ authReq[c].op = "logout"
    /\ authReq[c].pc = "found"
    /\ refreshtoken' = DeleteRefreshToken(refreshtoken, authReq[c].token)
    /\ authReq' = [authReq EXCEPT ![c] = Respond(@, 200, "logged_out", 0, 0)]
    /\ spent' = [spent EXCEPT !.revoked = @ \cup {authReq[c].token}]
    /\ UNCHANGED notAuthVars

(* the client has its response and may send its next request *)
ClientReturns(c) ==
    /\ authReq[c].pc = "done"
    /\ authReq' = [authReq EXCEPT ![c] = NoAuthRequest]
    /\ UNCHANGED <<refreshtoken, spent>>
    /\ UNCHANGED notAuthVars

(* time passes expiresAt of a stored token *)
TokenExpires(t) ==
    /\ refreshtoken[t] # NoToken
    /\ ~refreshtoken[t].expired
    /\ refreshtoken' = [refreshtoken EXCEPT ![t].expired = TRUE]
    /\ UNCHANGED <<authReq, spent>>
    /\ UNCHANGED notAuthVars

AuthIdle ==
    /\ refreshtoken = [t \in TokenIds |-> NoToken]
    /\ authReq = [c \in Clients |-> NoAuthRequest]
    /\ spent = [given |-> {}, rotated |-> {}, revoked |-> {}]

----------------------------------------------------------------------------
(* Asset management (routers/assets.py).  Every handler depends on         *)
(* get_current_user; user 0 stands for a request whose bearer token does   *)
(* not authenticate.  A file is named by the characters of its path below  *)
(* the storage directory.                                                  *)

(* the characters of a filePath *)
Chars(path) ==
    CASE path = "/storage/images/one.png" ->
             <<"/", "s", "t", "o", "r", "a", "g", "e", "/", "i", "m", "a", "g", "e", "s", "/", "o", "n", "e", ".", "p", "n", "g">>
      [] path = "/storage/images/two.png" ->
             <<"/", "s", "t", "o", "r", "a", "g", "e", "/", "i", "m", "a", "g", "e", "s", "/", "t", "w", "o", ".", "p", "n", "g">>
      [] path = "/storage/videos/three.mp4" ->
             <<"/", "s", "t", "o", "r", "a", "g", "e", "/", "v", "i", "d", "e", "o", "s", "/", "t", "h", "r", "e", "e", ".", "m", "p", "4">>

(* str.lstrip(chars): the leading characters that are in the set are       *)
(* removed                                                                 *)
RECURSIVE LStrip(_, _)
LStrip(cs, set) ==
    IF cs # <<>> /\ Head(cs) \in set THEN LStrip(Tail(cs), set) ELSE cs

(* the characters of "/storage/" *)
StoragePrefix == <<"/", "s", "t", "o", "r", "a", "g", "e", "/">>

(* where the adapter wrote the file of a filePath: the path below the      *)
(* storage directory, vertex_ai.py lines 190-197 and 232-241               *)
StoredAt(path) ==
    SubSeq(Chars(path), Len(StoragePrefix) + 1, Len(Chars(path)))

(* the file delete_asset removes: filePath.lstrip("/storage/") joined to   *)
(* the storage directory, lines 39-41                                      *)
FileToRemove(path) ==
    LStrip(Chars(path), {StoragePrefix[i] : i \in 1..Len(StoragePrefix)})

NoAssetRequest ==
    [op |-> "none", pc |-> "idle", user |-> 0, asset |-> 0,
     status |-> 0, detail |-> "", body |-> 0]

(* a lookup by id alone *)
FindAssetById(rows, a, u) == IF a \in rows THEN a ELSE 0

(* db.asset.find_first(where id and userId = current_user.id) *)
FindOwnedAsset(rows, a, u) ==
    IF a \in rows /\ owner[a] = u THEN a ELSE 0

Unauthorized(r) ==
    [r EXCEPT !.pc = "done", !.status = 401, !.detail = "not_authenticated"]

NotFound(r) ==
    [r EXCEPT !.pc = "done", !.status = 404, !.detail = "asset_not_found"]

(* get_asset: 401 without a user, 404 when find_first gives nothing,       *)
(* otherwise the row                                                       *)
GetAsset(c, u, a) ==
    /\ assetReq[c].pc = "idle"
    /\ LET r == [assetReq[c] EXCEPT !.op = "get", !.user = u, !.asset = a]
       IN  assetReq' = [assetReq EXCEPT ![c] =
               IF u = 0 THEN Unauthorized(r)
               ELSE IF FindOwnedAsset(assets, a, u) = 0 THEN NotFound(r)
               ELSE [r EXCEPT !.pc = "done", !.status = 200, !.body = a]]
    /\ UNCHANGED <<assets, owner, files>>
    /\ UNCHANGED notAssetVars

(* delete_asset up to its await of db.asset.delete: 401, 404, or the file  *)
(* of the row found is removed when it exists                              *)
DeleteAssetFile(c, u, a) ==
    /\ assetReq[c].pc = "idle"
    /\ LET r == [assetReq[c] EXCEPT !.op = "delete", !.user = u, !.asset = a]
       IN  IF u = 0
           THEN /\ assetReq' = [assetReq EXCEPT ![c] = Unauthorized(r)]
                /\ UNCHANGED files
           ELSE IF FindOwnedAsset(assets, a, u) = 0
           THEN /\ assetReq' = [assetReq EXCEPT ![c] = NotFound(r)]
                /\ UNCHANGED files
           ELSE /\ assetReq' = [assetReq EXCEPT ![c] = [r EXCEPT !.pc = "found"]]
                /\ files' = files \ {FileToRemove(SeedAssets[a].filePath)}
    /\ UNCHANGED <<assets, owner>>
    /\ UNCHANGED notAssetVars

(* db.asset.delete(where id), then 200 *)
DeleteAssetRow(c) ==
    /\ assetReq[c].op = "delete"
    /\ assetReq[c].pc = "found"
    /\ assets' = assets \ {assetReq[c].asset}
    /\ assetReq' = [assetReq EXCEPT ![c] =
           [@ EXCEPT !.pc = "done", !.status = 200, !.detail = "deleted"]]
    /\ UNCHANGED <<owner, files>>
    /\ UNCHANGED notAssetVars

(* the client has its response and may send its next request *)
AssetClientReturns(c) ==
    /\ assetReq[c].pc = "done"
    /\ assetReq' = [assetReq EXCEPT ![c] = NoAssetRequest]
    /\ UNCHANGED <<assets, owner, files>>
    /\ UNCHANGED notAssetVars

AssetsIdle ==
    /\ owner = [a \in AssetIds |-> 0]
    /\ files = {}
    /\ assetReq = [c \in Clients |-> NoAssetRequest]

FrontIdle == StreamsIdle /\ AuthIdle /\ AssetsIdle

----------------------------------------------------------------------------
(* no pure function of the adapter has been applied *)
NoAnswer ==
    [status |-> 200, body |-> "running", reasons |-> <<>>, text |-> "",
     locations |-> {}]

NoCall ==
    [op |-> "none", text |-> "", answer |-> NoAnswer, output |-> NoOutcome,
     bytes |-> ""]

Init ==
    /\ store = [j \in JobIds |-> NoRow]
    /\ clock = 0
    /\ jobs = [j \in JobIds |-> NoLiveJob]
    /\ queue = <<>>
    /\ running = FALSE
    /\ wpc = [w \in Workers |-> "off"]
    /\ wjob = [w \in Workers |-> 0]
    /\ wexc = [w \in Workers |-> "null"]
    /\ temp = {}
    /\ assets = {}
    /\ bg = [j \in JobIds |-> "none"]
    /\ req = NoRequest
    /\ response = [j \in JobIds |-> "none"]
    /\ PermitsIdle
    /\ fn = NoCall
    /\ NoScript
    /\ AdapterIdle
    /\ FrontIdle

Next ==
    \/ \E num_workers \in 1..NumWorkers : Start(num_workers)
    \/ Stop
    \/ Crash
    \/ \E j \in JobIds : Age(j)
    \/ \E j \in JobIds, type \in JobTypes : SubmitJob(j, type)
    \/ \E w \in Workers : Dequeue(w)
    \/ \E w \in Workers : FindJob(w)
    \/ \E w \in Workers : MarkProcessingDb(w)
    \/ \E w \in Workers : MarkProcessingRegistry(w)
    \/ \E w \in Workers, read \in ImageReads : ReadImage(w, read)
    \/ \E w \in Workers : MarkFailedDb(w)
    \/ \E w \in Workers : MarkFailedRegistry(w)

Spec == Init /\ [][Next]_vars

(* The submission handlers over the seeded Asset table; the worker pool is *)
(* not started (main.py's lifespan does not start it).                     *)
SubmitInit ==
    /\ store = [j \in JobIds |-> NoRow]
    /\ clock = 0
    /\ jobs = [j \in JobIds |-> NoLiveJob]
    /\ queue = <<>>
    /\ running = FALSE
    /\ wpc = [w \in Workers |-> "off"]
    /\ wjob = [w \in Workers |-> 0]
    /\ wexc = [w \in Workers |-> "null"]
    /\ temp = {}
    /\ assets = AssetIds
    /\ bg = [j \in JobIds |-> "none"]
    /\ req = NoRequest
    /\ response = [j \in JobIds |-> "none"]
    /\ PermitsIdle
    /\ fn = NoCall
    /\ NoScript
    /\ AdapterIdle
    /\ FrontIdle

SubmitNext ==
    \/ \E j \in JobIds, r \in Requests : TextToImage(j, r)
    \/ \E j \in JobIds, r \in Requests : TextToVideo(j, r)
    \/ \E j \in JobIds, r \in Requests : ImageToVideo(j, r)
    \/ \E j \in JobIds : RunBackgroundTask(j)
    \/ \E a \in AssetIds : AssetRowDeleted(a)

SubmitSpec == SubmitInit /\ [][SubmitNext]_vars

ServiceIdle ==
    /\ store = [j \in JobIds |-> NoRow]
    /\ clock = 0
    /\ jobs = [j \in JobIds |-> NoLiveJob]
    /\ queue = <<>>
    /\ running = FALSE
    /\ wpc = [w \in Workers |-> "off"]
    /\ wjob = [w \in Workers |-> 0]
    /\ wexc = [w \in Workers |-> "null"]
    /\ temp = {}
    /\ assets = {}
    /\ bg = [j \in JobIds |-> "none"]
    /\ req = NoRequest
    /\ response = [j \in JobIds |-> "none"]

PermitInit ==
    /\ ServiceIdle
    /\ PermitsIdle
    /\ fn = NoCall
    /\ NoScript
    /\ AdapterIdle
    /\ FrontIdle

PermitNext ==
    \/ GenerateImageEnter
    \/ ImageAcquire
    \/ ImageCallEnds
    \/ ImageCallRetryable
    \/ ImageBackoffElapsed
    \/ \E at \in {"wait", "call", "backoff"} : ImageCancelled(at)
    \/ GenerateVideoEnter
    \/ VideoAcquire
    \/ StartOperationOk
    \/ StartOperationRetryable
    \/ StartBackoffElapsed
    \/ StartOperationRaises
    \/ PollPending
    \/ PollSleepElapsed
    \/ PollEnds
    \/ \E at \in {"wait", "start", "startBackoff", "poll", "pollSleep"} :
           VideoCancelled(at)

PermitSpec == PermitInit /\ [][PermitNext]_vars

AdapterInit ==
    /\ ServiceIdle
    /\ PermitsIdle
    /\ fn = NoCall
    /\ kind \in {"image", "video"}
    /\ script \in Scripts(kind)
    /\ AdapterIdle
    /\ FrontIdle

AdapterNext ==
    \/ WorkerPicksUpImageJob
    \/ WorkerImageCall
    \/ WorkerPicksUpVideoJob
    \/ WorkerVideoCall
    \/ GenerateImage
    \/ ImageEndpointAnswers
    \/ ImageRetry
    \/ GenerateVideo
    \/ StartEndpointAnswers
    \/ StartRetry
    \/ PollTimesOut
    \/ \E d \in PollRequestSeconds : PollEndpointAnswers(d)
    \/ PollAgain

AdapterSpec == AdapterInit /\ [][AdapterNext]_vars

(* The status streams over the registry *)
StreamInit ==
    /\ store = [j \in JobIds |-> NoRow]
    /\ clock = 0
    /\ jobs \in [JobIds -> LiveJobsAtConnect]
    /\ queue = <<>>
    /\ running = FALSE
    /\ wpc = [w \in Workers |-> "off"]
    /\ wjob = [w \in Workers |-> 0]
    /\ wexc = [w \in Workers |-> "null"]
    /\ temp = {}
    /\ assets = AssetIds
    /\ bg = [j \in JobIds |-> "none"]
    /\ req = NoRequest
    /\ response = [j \in JobIds |-> "none"]
    /\ PermitsIdle
    /\ fn = NoCall
    /\ NoScript
    /\ AdapterIdle
    /\ FrontIdle

StreamNext ==
    \/ \E s \in StreamIds, j \in JobIds : StreamJobStatus(s, j)
    \/ \E s \in StreamIds : EventGeneratorStarts(s)
    \/ \E s \in StreamIds : EventGeneratorResumes(s)
    \/ \E s \in StreamIds : EventGeneratorWakes(s)
    \/ \E j \in JobIds : TaskMarksProcessing(j)
    \/ \E j \in JobIds, a \in AssetIds : TaskCompletes(j, a)
    \/ \E j \in JobIds : TaskFails(j)
    \/ \E j \in JobIds : TaskFailsAtOnce(j)

StreamSpec == StreamInit /\ [][StreamNext]_vars

(* The auth handlers over the RefreshToken table *)
AuthInit ==
    /\ ServiceIdle
    /\ PermitsIdle
    /\ fn = NoCall
    /\ NoScript
    /\ AdapterIdle
    /\ FrontIdle

AuthNext ==
    \/ \E c \in Clients, u \in UserIds, ok \in BOOLEAN, t \in TokenIds :
           Login(c, u, ok, t)
    \/ \E c \in Clients, t \in TokenIds \cup {0} : RefreshFind(c, t)
    \/ \E c \in Clients, t \in TokenIds : RefreshRotate(c, t)
    \/ \E c \in Clients, t \in TokenIds \cup {0} : LogoutFind(c, t)
    \/ \E c \in Clients : LogoutDelete(c)
    \/ \E c \in Clients : ClientReturns(c)
    \/ \E t \in TokenIds : TokenExpires(t)

AuthSpec == AuthInit /\ [][AuthNext]_vars

(* Asset management over Asset rows that users own, each with its file *)
AssetInit ==
    /\ store = [j \in JobIds |-> NoRow]
    /\ clock = 0
    /\ jobs = [j \in JobIds |-> NoLiveJob]
    /\ queue = <<>>
    /\ running = FALSE
    /\ wpc = [w \in Workers |-> "off"]
    /\ wjob = [w \in Workers |-> 0]
    /\ wexc = [w \in Workers |-> "null"]
    /\ temp = {}
    /\ assets \in SUBSET AssetIds
    /\ bg = [j \in JobIds |-> "none"]
    /\ req = NoRequest
    /\ response = [j \in JobIds |-> "none"]
    /\ PermitsIdle
    /\ fn = NoCall
    /\ NoScript
    /\ AdapterIdle
    /\ StreamsIdle
    /\ AuthIdle
    /\ owner \in [AssetIds -> UserIds \cup {0}]
    /\ \A a \in AssetIds \ assets : owner[a] = 0
    /\ files = {StoredAt(SeedAssets[a].filePath) : a \in assets}
    /\ assetReq = [c \in Clients |-> NoAssetRequest]

AssetNext ==
    \/ \E c \in Clients, u \in UserIds \cup {0}, a \in AssetIds : GetAsset(c, u, a)
    \/ \E c \in Clients, u \in UserIds \cup {0}, a \in AssetIds :
           DeleteAssetFile(c, u, a)
    \/ \E c \in Clients : DeleteAssetRow(c)
    \/ \E c \in Clients : AssetClientReturns(c)

AssetSpec == AssetInit /\ [][AssetNext]_vars

----------------------------------------------------------------------------
(* Properties of the queue worker pool, checked under Spec *)

Terminal == {"completed", "failed"}

(* a worker that has written processing for its job and not yet a terminal *)
(* status                                                                  *)
Executing(w) == wpc[w] \in {"markReg", "readImg", "failDb"}

(* the step is start() (the only step that sets the running flag) *)
StartStep == ~running /\ running'

(* the step is stop() (it clears the flag and keeps the registry, which a  *)
(* process exit loses) while some worker is in the middle of a job         *)
StopMidJob ==
    /\ running /\ ~running'
    /\ jobs' = jobs
    /\ \E w \in Workers : Executing(w)

LifecycleEdges ==
    {<<"absent", "queued">>, <<"queued", "processing">>,
     <<"processing", "completed">>, <<"processing", "failed">>}

(* every change of a store row's status is queued -> processing,           *)
(* processing -> completed or processing -> failed (after the row's        *)
(* creation as queued), and a completed or failed row never changes status *)
StatusFollowsDag ==
    [][\A j \in JobIds :
          store'[j].status # store[j].status
              => /\ <<store[j].status, store'[j].status>> \in LifecycleEdges
                 /\ store[j].status \notin Terminal]_vars

(* C1: a job whose store status is completed or failed never changes      *)
(* status again (the second sentence of the claim; the first is            *)
(* StatusFollowsDag)                                                       *)
C1_TerminalStatusIsFinal ==
    [][\A j \in JobIds :
          store[j].status \in Terminal => store'[j].status = store[j].status]_vars

(* C3: for every job, at most one worker is between the job's transition   *)
(* to processing and its terminal transition                               *)
C3_OneWorkerPerJob ==
    \A j \in JobIds :
        Cardinality({w \in Workers : wjob[w] = j /\ Executing(w)}) <= 1

(* the number of times id j is on the FIFO q *)
Occurrences(q, j) == Cardinality({i \in 1..Len(q) : q[i] = j})

(* q lists ids in ascending createdAt order *)
Ascending(st, q) ==
    \A a, b \in 1..Len(q) : a < b => st[q[a]].createdAt <= st[q[b]].createdAt

(* C4: when start() has finished recovery, no row is processing, every     *)
(* queued job is on the FIFO exactly once, the FIFO is in ascending        *)
(* createdAt order, and every queued job has a LiveJob                     *)
C4_AfterRecovery ==
    [][StartStep =>
          /\ \A j \in JobIds : store'[j].status # "processing"
          /\ \A j \in JobIds : store'[j].status = "queued"
                 => Occurrences(queue', j) = 1 /\ jobs'[j].status # "absent"
          /\ Ascending(store', queue')]_vars

(* C4 as amended: the ids that start() pushes are the queued jobs, each    *)
(* once, oldest first, behind whatever an earlier stop() left on the FIFO  *)
C4_RecoveryPushesQueuedOnce ==
    [][StartStep =>
          /\ \A j \in JobIds : store'[j].status # "processing"
          /\ Len(queue') >= Len(queue)
          /\ SubSeq(queue', 1, Len(queue)) = queue
          /\ LET pushed == SubSeq(queue', Len(queue) + 1, Len(queue'))
             IN  /\ \A j \in JobIds :
                        Occurrences(pushed, j) =
                            IF store'[j].status = "queued" THEN 1 ELSE 0
                 /\ Ascending(store', pushed)
          /\ \A j \in JobIds : store'[j].status = "queued"
                 => jobs'[j].status # "absent"
          /\ (queue = <<>> =>
                 \A j \in JobIds : store'[j].status = "queued"
                     => Occurrences(queue', j) = 1)]_vars

(* start() has just recovered: a job that an earlier stop() left           *)
(* processing is queued again, and two ids wait on the FIFO                *)
C4_Witness ==
    /\ running
    /\ \A w \in Workers : wpc[w] = "idle"
    /\ Len(queue) >= 2
    /\ \E j \in JobIds : store[j].status = "queued" /\ jobs[j].status = "processing"

(* C5: when stop() is called while a worker is in the middle of a job, the *)
(* job's store status is terminal when stop() returns                      *)
C5_StopFinishesCurrentJob ==
    [][StopMidJob =>
          \A w \in Workers : Executing(w) => store'[wjob[w]].status \in Terminal]_vars

----------------------------------------------------------------------------
(* Properties of the submission handlers, checked under SubmitSpec *)

(* the step is the handler's answer to a submission that was given id j *)
Answered(j) == response[j] = "none" /\ response'[j] # "none"

(* C6: a submission answered pending has written a queued store row, has a *)
(* LiveJob, has its id on the FIFO exactly once when the response is       *)
(* returned, and no background task outside the worker pool executes it    *)
C6_MissIsQueuedDurably ==
    [][\A j \in JobIds :
          Answered(j) /\ response'[j] = "pending"
              => /\ store'[j].status = "queued"
                 /\ jobs'[j].status # "absent"
                 /\ Occurrences(queue', j) = 1
                 /\ bg'[j] = "none"]_vars

(* C7: a request without a valid bearer token creates no job and gets no   *)
(* generation response                                                     *)
C7_NoTokenNoEffect ==
    \A j \in JobIds :
        req.job = j /\ req.token # "valid"
            => jobs[j].status = "absent" /\ response[j] = "none"

(* the modality an endpoint generates *)
Modality(endpoint) == IF endpoint = "text-to-image" THEN "image" ELSE "video"

(* the Asset rows present whose prompt is the trimmed, lowercased prompt   *)
(* of request r and whose model and modality are r's                       *)
MatchingAssets(r) ==
    {a \in assets : /\ SeedAssets[a].prompt = NormalizePrompt(r.prompt)
                    /\ SeedAssets[a].model = r.model
                    /\ SeedAssets[a].assetType = Modality(r.kind)}

IsNewest(a, S) ==
    /\ a \in S
    /\ \A b \in S : SeedAssets[a].createdAt >= SeedAssets[b].createdAt

(* C8: a text-to-image or text-to-video submission without options whose   *)
(* fingerprint matches an Asset row is answered completed, its LiveJob     *)
(* carries the newest matching Asset's id and path, and nothing is         *)
(* scheduled to execute it                                                 *)
C8_CacheHitServesNewestAsset ==
    [][\A j \in JobIds, r \in Requests :
          /\ r.opts = {}
          /\ req' = Received(j, r)
          /\ MatchingAssets(r) # {}
          /\ TextToImage(j, r) \/ TextToVideo(j, r)
          => /\ response'[j] = "completed"
             /\ jobs'[j].status = "completed"
             /\ IsNewest(jobs'[j].asset_id, MatchingAssets(r))
             /\ jobs'[j].result_url = SeedAssets[jobs'[j].asset_id].filePath
             /\ bg'[j] = "none"
             /\ UNCHANGED <<store, queue>>]_vars

(* the same untrimmed, upper-case prompt was submitted twice without       *)
(* options while two matching rows exist: both jobs carry the newer row    *)
C8_Witness ==
    \E j, k \in JobIds :
        /\ j # k
        /\ {1, 2} \subseteq assets
        /\ req.job = k /\ req.opts = {} /\ req.prompt = <<" ", "A", " ">>
        /\ response[j] = "completed" /\ response[k] = "completed"
        /\ jobs[j].asset_id = 1 /\ jobs[k].asset_id = 1
        /\ jobs[k].result_url = "/storage/images/one.png"
        /\ bg[j] = "none" /\ bg[k] = "none"

(* C9: a submission that carries an option is answered pending with a new  *)
(* LiveJob and a scheduled execution, whatever the Asset table holds       *)
C9_OptionsBypassCache ==
    [][\A j \in JobIds, r \in Requests :
          /\ r.opts # {}
          /\ req' = Received(j, r)
          /\ TextToImage(j, r) \/ TextToVideo(j, r) \/ ImageToVideo(j, r)
          => /\ response'[j] = "pending"
             /\ jobs[j].status = "absent"
             /\ jobs'[j].status = "pending"
             /\ jobs'[j].asset_id = 0
             /\ bg'[j] \in Tasks]_vars

(* a text-to-image submission with an option was answered pending although *)
(* an Asset row matches its fingerprint                                    *)
C9_Witness ==
    /\ req.kind = "text-to-image"
    /\ req.opts # {}
    /\ MatchingAssets(req) # {}
    /\ response[req.job] = "pending"
    /\ jobs[req.job].status = "pending"
    /\ bg[req.job] = "process_image_generation"

----------------------------------------------------------------------------
(* Properties of the permits, checked under PermitSpec *)

(* C2: at every instant at most 10 image remote calls are in progress and  *)
(* at most 3 video remote calls (LRO start plus polling)                   *)
C2_CallsWithinPermits ==
    /\ ImageInProgress <= 10
    /\ VideoInProgress <= 3

(* both limits are reached while one more caller of each kind waits for a  *)
(* permit, the video callers being spread over start and polling           *)
C2_Witness ==
    /\ ImageInProgress = 10 /\ img.wait >= 1
    /\ VideoInProgress = 3 /\ vid.wait >= 1
    /\ vid.pollSleep >= 1 /\ vid.startBackoff >= 1

----------------------------------------------------------------------------
(* Properties of the adapter invocation, checked under AdapterSpec *)

(* the i-th answer of the image endpoint is a retryable error *)
ImageAnswerRetryable(i) ==
    /\ ~script[i].ok
    /\ IsRetryable(script[i].text)

(* the image endpoint fails retryably k times and then returns bytes *)
FailsThenBytes(k) ==
    /\ kind = "image"
    /\ \A i \in 1..k : ImageAnswerRetryable(i)
    /\ script[k + 1].ok

(* C10: when the image endpoint fails retryably k times (1 <= k <= 4) and  *)
(* then returns bytes, the job is never failed, the adapter call of the    *)
(* job ends by returning the bytes after exactly k + 1 provider calls, and *)
(* the job is then completed                                               *)
C10_RetriedImageJobCompletes ==
    \A k \in 1..4 :
        FailsThenBytes(k)
            => /\ jobStatus # "failed"
               /\ (apc = "done" =>
                      /\ outcome = Returned
                      /\ calls = k + 1
                      /\ caller = "worker" => jobStatus = "completed")

(* the i-th answer of the video start endpoint is a retryable error *)
StartAnswerRetryable(i) == script[i].status = 429 \/ script[i].status >= 500

(* every answer of the provider is a retryable error *)
EveryAnswerRetryable ==
    \A i \in 1..ScriptLen :
        IF kind = "image" THEN ImageAnswerRetryable(i) ELSE StartAnswerRetryable(i)

(* the attempts tenacity allows the retried call of the job's modality *)
MaxAttempts ==
    IF kind = "image" THEN IMAGE_MAX_ATTEMPTS ELSE VIDEO_START_MAX_ATTEMPTS

(* the invocation has ended by re-raising the retryable error after the    *)
(* allowed number of provider calls                                        *)
RetriesExhausted ==
    /\ calls = MaxAttempts
    /\ outcome.result = "RetryableAPIError"

(* a directly invoked adapter whose every attempt fails retryably ends     *)
(* with the retries exhausted                                              *)
DirectCallExhaustsRetries ==
    (caller = "direct" /\ EveryAnswerRetryable)
        => /\ calls <= MaxAttempts
           /\ (apc = "done" => RetriesExhausted)

(* C11: when every attempt fails retryably, the adapter call of a job ends *)
(* after exactly 5 provider calls (image) or exactly 3 (video operation    *)
(* start) by re-raising the retryable error, no further provider call is   *)
(* made, and the job is then failed                                        *)
C11_RetryBoundIsExact ==
    EveryAnswerRetryable
        => /\ calls <= MaxAttempts
           /\ (apc = "done" =>
                  /\ RetriesExhausted
                  /\ caller = "worker" => jobStatus = "failed")

(* the first answer of the provider is an error that is not retryable: an  *)
(* image error whose text has none of the retryable substrings, a video    *)
(* start response whose status is neither 200, 429 nor 500 and above       *)
FirstAnswerNonRetryable ==
    IF kind = "image"
    THEN ~script[1].ok /\ ~ImageAnswerRetryable(1)
    ELSE script[1].status # 200 /\ ~StartAnswerRetryable(1)

(* the invocation has ended by raising the non-retryable error after one   *)
(* provider call                                                           *)
RaisedAtOnce ==
    /\ calls = 1
    /\ attempt = 1
    /\ outcome.result = "NonRetryableAPIError"

(* a directly invoked adapter whose first answer is a non-retryable error  *)
(* raises it after that one provider call                                  *)
DirectCallRaisesAtOnce ==
    (caller = "direct" /\ FirstAnswerNonRetryable)
        => /\ calls <= 1
           /\ apc \notin {"backoff", "startBackoff"}
           /\ (apc = "done" => RaisedAtOnce)

(* C12: when the provider's answer is a non-retryable error, the adapter   *)
(* call of a job makes exactly one provider call, is never retried, and    *)
(* ends by raising the non-retryable error to the worker                   *)
C12_NonRetryableIsNotRetried ==
    FirstAnswerNonRetryable
        => /\ calls <= 1
           /\ apc \notin {"backoff", "startBackoff"}
           /\ (apc = "done" => RaisedAtOnce)

(* Properties of the permits under retries, checked under PermitSpec *)

(* C13: during a retried image call the permit acquired for the first      *)
(* attempt stays held through every backoff and later attempt: every image *)
(* call that is at the provider or in a backoff between two attempts holds *)
(* one of the 10 permits, so the free permits do not rise between attempts *)
C13_PermitHeldAcrossAttempts ==
    imageValue + img.call + img.backoff = IMAGE_PERMITS

(* the video operation start is retried inside the block: a start that is  *)
(* in its backoff holds its permit                                         *)
VideoPermitHeldAcrossStartAttempts ==
    videoValue + VideoInProgress = VIDEO_PERMITS

(* C14: every acquired permit is released exactly once on every exit path: *)
(* the free permits never exceed the initial 10 (image) and 3 (video), the *)
(* permits taken are exactly the remote calls in progress, and whenever no *)
(* remote call is in progress the free permits equal the initial value     *)
C14_PermitsReleasedExactlyOnce ==
    /\ imageValue <= IMAGE_PERMITS
    /\ videoValue <= VIDEO_PERMITS
    /\ IMAGE_PERMITS - imageValue = ImageInProgress
    /\ VIDEO_PERMITS - videoValue = VideoInProgress
    /\ (ImageInProgress = 0 => imageValue = IMAGE_PERMITS)
    /\ (VideoInProgress = 0 => videoValue = VIDEO_PERMITS)

(* an image call has left the block on the retryable path with no other    *)
(* image call in progress, while every video permit is taken               *)
C14_Witness ==
    /\ img.backoff > 0
    /\ ImageInProgress = 0
    /\ imageValue = IMAGE_PERMITS
    /\ videoValue = 0
    /\ vid.startBackoff > 0

(* Properties of the status stream, checked under StreamSpec *)

(* the stream has been opened on a job *)
Streaming(s) == streams[s].pc \in {"opened", "sent", "wait", "woken", "closed"}

(* the snapshot the handler found followed by the snapshots of the updates *)
(* made since                                                              *)
SnapshotThenUpdates(s) == <<streams[s].opened>> \o streams[s].updates

Statuses(frames) == [i \in 1..Len(frames) |-> frames[i].status]

(* C15: for a stream opened on a non-terminal job, when each registry      *)
(* update happens while the stream is waiting on the notifier, the frames  *)
(* are the connect-time snapshot and then one frame per update, in update  *)
(* order, each carrying what that update set (the frame of the latest      *)
(* update is due while the woken generator has not run), only the last     *)
(* frame is terminal, and after a terminal frame the stream closes         *)
(* without waiting again                                                   *)
C15_OneFramePerUpdate ==
    \A s \in StreamIds :
        LET st == streams[s]
            n == Len(st.frames)
        IN  (/\ st.pc \in {"sent", "wait", "woken", "closed"}
             /\ st.orderly
             /\ st.opened.status \notin Terminal)
                => /\ st.frames = IF st.pc = "woken"
                                  THEN SubSeq(SnapshotThenUpdates(s), 1, n)
                                  ELSE SnapshotThenUpdates(s)
                   /\ st.pc = "woken" => Len(st.updates) = n
                   /\ \A i \in 1..(n - 1) : st.frames[i].status \notin Terminal
                   /\ st.pc \in {"wait", "woken"} => st.frames[n].status \notin Terminal
                   /\ st.pc = "closed" => st.frames[n].status \in Terminal

(* a stream has closed after the frames pending, processing, completed,    *)
(* each update having found it waiting                                     *)
C15_Witness ==
    \E s \in StreamIds :
        /\ streams[s].pc = "closed"
        /\ streams[s].orderly
        /\ Len(streams[s].updates) = 2
        /\ Statuses(streams[s].frames) = <<"pending", "processing", "completed">>

(* C16: a stream opened on a job whose status is already completed or      *)
(* failed emits exactly one frame, carrying that terminal snapshot, and    *)
(* then closes without ever waiting on the notifier                        *)
C16_TerminalJobGetsOneFrame ==
    \A s \in StreamIds :
        LET st == streams[s]
        IN  (Streaming(s) /\ st.opened.status \in Terminal)
                => /\ st.pc \in {"opened", "sent", "closed"}
                   /\ st.pc # "opened" => st.frames = <<st.opened>>
                   /\ st.frames # <<>> =>
                          /\ st.frames[1].asset_id = jobs[st.job].asset_id
                          /\ st.frames[1].result_url = jobs[st.job].result_url
                          /\ st.frames[1].error_message = jobs[st.job].error_message

(* a stream opened on a completed job and one opened on a failed job have  *)
(* closed after their single frame                                         *)
C16_Witness ==
    /\ \E s \in StreamIds :
           /\ streams[s].pc = "closed"
           /\ streams[s].opened.status = "completed"
           /\ streams[s].opened.asset_id # 0
           /\ Len(streams[s].frames) = 1
    /\ \E s \in StreamIds :
           /\ streams[s].pc = "closed"
           /\ streams[s].opened.status = "failed"
           /\ streams[s].opened.error_message # "null"
           /\ Len(streams[s].frames) = 1

(* Properties of the filtered video operation, checked under AdapterSpec *)

(* the sentences _to_korean_safety_message and the fallback can give *)
LocalizedSentences ==
    {SAFETY_PATTERNS[i].sentence : i \in 1..Len(SAFETY_PATTERNS)}
        \cup {FilteredFallback}

(* the video operation starts and its first poll finds it done with        *)
(* raiMediaFilteredCount > 0, whatever the reasons list                    *)
OperationFiltered ==
    /\ kind = "video"
    /\ script[1].status = 200
    /\ script[2].status = 200
    /\ script[2].body = "filtered"

(* the invocation has ended by raising a localized sentence *)
RaisedLocalized ==
    /\ outcome.result = "Exception"
    /\ outcome.message \in LocalizedSentences
    /\ outcome.message \notin Texts

(* a directly invoked adapter whose operation is filtered raises a         *)
(* localized sentence after the start and one poll                         *)
DirectCallRaisesLocalized ==
    (caller = "direct" /\ OperationFiltered)
        => (apc = "done" => RaisedLocalized /\ calls = 2)

(* C17: when the video operation completes with raiMediaFilteredCount > 0, *)
(* for every reasons list, the job ends failed and never completed, and    *)
(* its error message is one of the fixed localized sentences, never the    *)
(* raw reason text                                                         *)
C17_FilteredVideoFailsLocalized ==
    OperationFiltered
        => /\ jobStatus # "completed"
           /\ (apc = "done" =>
                  /\ RaisedLocalized
                  /\ caller = "worker" =>
                         /\ jobStatus = "failed"
                         /\ jobError \in LocalizedSentences)

(* Properties of the refresh tokens, checked under AuthSpec *)

(* in this step client c sends a request of kind op *)
Sends(c, op) == authReq[c].pc = "idle" /\ authReq'[c].op = op

(* in this step the request of client c, which had found its row, ends *)
Finishes(c, op) ==
    /\ authReq[c].op = op
    /\ authReq[c].pc = "found"
    /\ authReq'[c].pc = "done"

Refused(r, detail) ==
    /\ r.pc = "done"
    /\ r.status = 401
    /\ r.detail = detail
    /\ r.access = 0
    /\ r.refresh = 0

(* C18: a refresh token is one-shot: a successful refresh deletes the      *)
(* presented token and issues an access token and a new stored refresh     *)
(* token for the same user, and every later presentation of the same token *)
(* is answered 401 token_reuse_detected, with no tokens and no change of   *)
(* the table                                                               *)
C18_RefreshTokenIsOneShot ==
    [][\A c \in Clients :
          /\ (Finishes(c, "refresh") /\ authReq'[c].status = 200)
                 => LET old == authReq[c].token
                        new == authReq'[c].refresh
                        user == authReq[c].rt.userId
                    IN  /\ refreshtoken'[old] = NoToken
                        /\ new \in TokenIds \ {old}
                        /\ new \notin spent.given
                        /\ refreshtoken'[new] = [userId |-> user, expired |-> FALSE]
                        /\ authReq'[c].access = user
                        /\ user \in UserIds
                        /\ \A k \in TokenIds \ {old, new} :
                               refreshtoken'[k] = refreshtoken[k]
          /\ (Sends(c, "refresh") /\ authReq'[c].token \in spent.rotated)
                 => /\ Refused(authReq'[c], "token_reuse_detected")
                    /\ refreshtoken' = refreshtoken
      ]_vars

(* a token that a refresh has rotated was presented again and refused *)
C18_Witness ==
    \E c \in Clients :
        /\ authReq[c].op = "refresh"
        /\ authReq[c].token \in spent.rotated
        /\ Refused(authReq[c], "token_reuse_detected")

(* C19: logout is idempotent: logout with a stored token deletes exactly   *)
(* that token and no other, logout with an unknown token answers 200 and   *)
(* leaves the table unchanged, a second logout of the same token changes   *)
(* nothing, and a logged-out token can no longer be refreshed              *)
C19_LogoutIsIdempotent ==
    [][\A c \in Clients :
          /\ Finishes(c, "logout")
                 => /\ authReq'[c].status = 200
                    /\ refreshtoken' =
                           [refreshtoken EXCEPT ![authReq[c].token] = NoToken]
          /\ (Sends(c, "logout")
                  /\ FindRefreshToken(refreshtoken, authReq'[c].token) = NoToken)
                 => /\ authReq'[c].pc = "done"
                    /\ authReq'[c].status = 200
                    /\ refreshtoken' = refreshtoken
          /\ (Sends(c, "logout") /\ authReq'[c].token \in spent.revoked)
                 => /\ authReq'[c].pc = "done"
                    /\ authReq'[c].status = 200
                    /\ refreshtoken' = refreshtoken
          /\ (Sends(c, "refresh") /\ authReq'[c].token \in spent.revoked)
                 => /\ Refused(authReq'[c], "token_reuse_detected")
                    /\ refreshtoken' = refreshtoken
      ]_vars

(* a token was logged out, a second logout of it was answered 200, and a   *)
(* refresh with it was refused, while another token stays stored           *)
C19_Witness ==
    /\ \E c \in Clients :
           /\ authReq[c].op = "logout"
           /\ authReq[c].pc = "done"
           /\ authReq[c].status = 200
           /\ authReq[c].rt = NoToken
           /\ authReq[c].token \in spent.revoked
    /\ \E c \in Clients :
           /\ authReq[c].op = "refresh"
           /\ authReq[c].token \in spent.revoked
           /\ Refused(authReq[c], "token_reuse_detected")
    /\ \E t \in TokenIds : refreshtoken[t] # NoToken

(* Properties of asset management, checked under AssetSpec *)

(* in this step client c sends a GET or a DELETE as an authenticated user *)
AsksForAsset(c) ==
    /\ assetReq[c].pc = "idle"
    /\ assetReq'[c].op \in {"get", "delete"}
    /\ assetReq'[c].user # 0

(* what the client is answered *)
Answer(r) == [pc |-> r.pc, status |-> r.status, detail |-> r.detail, body |-> r.body]

AnswerNotFound ==
    [pc |-> "done", status |-> 404, detail |-> "asset_not_found", body |-> 0]

(* C20: GET or DELETE of an asset by an authenticated user who is not its  *)
(* owner is answered 404, the same answer as for a nonexistent asset id,   *)
(* and leaves the asset row and its file unchanged; a row or a file is     *)
(* removed only by a DELETE of the row's owner, which removes that row and *)
(* that file and nothing else                                              *)
C20_OnlyOwnerReachesAsset ==
    [][/\ \A c \in Clients :
              LET a == assetReq'[c].asset
                  u == assetReq'[c].user
              IN  /\ (AsksForAsset(c) /\ a \in assets /\ owner[a] # u)
                         => /\ Answer(assetReq'[c]) = AnswerNotFound
                            /\ assets' = assets
                            /\ files' = files
                  /\ (AsksForAsset(c) /\ a \notin assets)
                         => /\ Answer(assetReq'[c]) = AnswerNotFound
                            /\ assets' = assets
                            /\ files' = files
                  /\ (assetReq[c].op = "delete" /\ assetReq[c].pc = "found"
                          /\ assetReq'[c].pc = "done")
                         => /\ assetReq'[c].status = 200
                            /\ a \notin assets'
                            /\ StoredAt(SeedAssets[a].filePath) \notin files'
       /\ (assets' # assets \/ files' # files)
              => \E c \in Clients :
                     LET a == assetReq'[c].asset
                     IN  /\ assetReq'[c].op = "delete"
                         /\ assetReq'[c].user # 0
                         /\ assetReq'[c].user = owner[a]
                         /\ assets \ assets' \subseteq {a}
                         /\ files \ files' \subseteq {StoredAt(SeedAssets[a].filePath)}
       /\ owner' = owner
      ]_vars

(* a user who is not the owner was answered 404 for an asset whose row and *)
(* file are still there, and an owner's DELETE has removed another row and *)
(* its file                                                                *)
C20_Witness ==
    /\ \E c \in Clients :
           LET a == assetReq[c].asset
           IN  /\ assetReq[c].op \in {"get", "delete"}
               /\ Answer(assetReq[c]) = AnswerNotFound
               /\ a \in assets
               /\ owner[a] \notin {0, assetReq[c].user}
               /\ StoredAt(SeedAssets[a].filePath) \in files
    /\ \E c \in Clients :
           LET a == assetReq[c].asset
           IN  /\ assetReq[c].op = "delete"
               /\ assetReq[c].status = 200
               /\ assetReq[c].user = owner[a]
               /\ a \notin assets
               /\ StoredAt(SeedAssets[a].filePath) \notin files

----------------------------------------------------------------------------
(* Enqueueing and job status *)

(* this step puts id j on the FIFO: j is among the entries appended *)
PutOnFifo(j) ==
    /\ Len(queue') > Len(queue)
    /\ \E i \in (Len(queue) + 1)..Len(queue') : queue'[i] = j

(* C21: an id is put on the FIFO, by a submission or by the recovery of    *)
(* start(), only while the job's store status is queued; a job whose       *)
(* store status is completed or failed is never enqueued again, also       *)
(* after a restart.                                                        *)
C21_EnqueuedOnlyWhileQueued ==
    [][\A j \in JobIds : PutOnFifo(j) => store'[j].status = "queued"]_vars

(* after a crash and a restart (the registry lost job j, the store kept    *)
(* it as failed) recovery has put the queued job k on the FIFO, not j      *)
C21_Witness ==
    /\ running
    /\ \E j, k \in JobIds :
          /\ store[j].status = "failed" /\ jobs[j].status = "absent"
          /\ store[k].status = "queued" /\ jobs[k].status = "pending"
          /\ queue = <<k>>

----------------------------------------------------------------------------
(* The reaper runs before recovery *)

Zombie(row) == row.status = "processing" /\ row.stale

RecentlyProcessing(row) == row.status = "processing" /\ ~row.stale

(* C22: at startup a job that is processing with updatedAt more than 24    *)
(* hours old is marked failed with the abandonment message before          *)
(* recovery runs, so it is neither flipped to queued nor pushed onto the   *)
(* FIFO; a processing job updated within the last 24 hours is not failed   *)
(* by the reaper and is recovered: queued again and pushed.                *)
C22_ReaperRunsBeforeRecovery ==
    [][StartStep =>
         \A j \in JobIds :
            /\ Zombie(store[j]) =>
                  /\ store'[j].status = "failed"
                  /\ store'[j].errorMessage = ZombieMessage
                  /\ ~PutOnFifo(j)
            /\ RecentlyProcessing(store[j]) =>
                  /\ store'[j].status = "queued"
                  /\ store'[j].errorMessage = store[j].errorMessage
                  /\ PutOnFifo(j)]_vars

(* start() has just run after a stop() that cancelled two workers in       *)
(* mid-job: the abandoned job j was reaped, the recent job k was recovered *)
C22_Witness ==
    /\ running
    /\ \A w \in Workers : wpc[w] = "idle"
    /\ \E j, k \in JobIds :
          /\ store[j].status = "failed"
          /\ store[j].errorMessage = ZombieMessage
          /\ jobs[j].status = "processing"
          /\ \A i \in 1..Len(queue) : queue[i] # j
          /\ store[k].status = "queued"
          /\ jobs[k].status = "processing"
          /\ \E i \in 1..Len(queue) : queue[i] = k

----------------------------------------------------------------------------
(* Result fields of terminal jobs *)

(* the fields a completed job carries: an asset and its URL, no error *)
CompletedFields(asset, url, msg) ==
    asset # 0 /\ url # "null" /\ msg = "null"

(* the fields a failed job carries: an error message, no asset or URL *)
FailedFields(asset, url, msg) ==
    asset = 0 /\ url = "null" /\ msg # "null"

----------------------------------------------------------------------------
(* Progress of the worker pool *)

(* one step of worker w's coroutine *)
WorkerStep(w) ==
    \/ Dequeue(w)
    \/ FindJob(w)
    \/ MarkProcessingDb(w)
    \/ MarkProcessingRegistry(w)
    \/ \E read \in ImageReads : ReadImage(w, read)
    \/ MarkFailedDb(w)
    \/ MarkFailedRegistry(w)

(* The event loop runs every task that is ready, the store answers every   *)
(* call and every remote call returns or raises: a worker that can take a  *)
(* step eventually takes it.  start(), stop(), a crash, the passing of     *)
(* time and submissions are the environment's and are not forced.          *)
FairSpec == Init /\ [][Next]_vars /\ \A w \in Workers : WF_vars(WorkerStep(w))

OnFifo(j) == \E i \in 1..Len(queue) : queue[i] = j

----------------------------------------------------------------------------
(* Asset rows and their files *)

(* the file a row's filePath names is in storage *)
FileExists(a) == StoredAt(SeedAssets[a].filePath) \in files

----------------------------------------------------------------------------
(* The failure handler of _process_job *)

(* worker w's store write of the handler takes place in this step *)
HandlerWritesStore(w) == wpc[w] = "failDb" /\ wpc'[w] = "failReg"

(* worker w's registry write of the handler takes place in this step *)
HandlerWritesRegistry(w) == wpc[w] = "failReg" /\ wpc'[w] = "idle"

----------------------------------------------------------------------------
(* The registry on its own: create_job, update_job with any keyword        *)
(* arguments, and the observer's clearing of an entry's event              *)

(* the values callers pass for the fields *)
FullKwargs ==
    [status : {"processing", "completed", "failed"}, asset_id : {1},
     result_url : {SeedAssets[1].filePath}, error_message : {OptionsTypeError}]

(* the keyword arguments of one update_job call: any subset of the fields, *)
(* the empty one included                                                  *)
Kwargs ==
    {[f \in D |-> full[f]] : full \in FullKwargs, D \in SUBSET JobFields}

notRegistryVars ==
    <<store, clock, queue, running, wpc, wjob, wexc, temp, notQueueVars>>

RegistryCreate(j) ==
    /\ jobs' = CreateJob(jobs, j)
    /\ UNCHANGED notRegistryVars

RegistryUpdate(j, kwargs) ==
    /\ jobs' = UpdateJob(jobs, j, kwargs)
    /\ UNCHANGED notRegistryVars

(* job._event.clear() in the stream's generator *)
RegistryClear(j) ==
    /\ jobs[j].event
    /\ jobs' = [jobs EXCEPT ![j].event = FALSE]
    /\ UNCHANGED notRegistryVars

RegistryInit == Init

RegistryNext ==
    \/ \E j \in JobIds : RegistryCreate(j)
    \/ \E j \in JobIds, kwargs \in Kwargs : RegistryUpdate(j, kwargs)
    \/ \E j \in JobIds : RegistryClear(j)

RegistrySpec == RegistryInit /\ [][RegistryNext]_vars

(* C27: update_job on an existing entry sets exactly the given fields,     *)
(* leaves the entry's other fields and every other entry (fields and       *)
(* notifier) unchanged and sets the entry's notifier; on an unknown id it  *)
(* creates no entry, sets no notifier and changes nothing.                 *)
C27_UpdateSetsExactlyGivenFields ==
    \A j \in JobIds, kwargs \in Kwargs :
       LET after == UpdateJob(jobs, j, kwargs)
       IN  /\ \A k \in JobIds \ {j} : after[k] = jobs[k]
           /\ jobs[j].status # "absent" =>
                 /\ \A f \in DOMAIN kwargs : after[j][f] = kwargs[f]
                 /\ \A f \in JobFields \ DOMAIN kwargs : after[j][f] = jobs[j][f]
                 /\ after[j].event
           /\ jobs[j].status = "absent" => after = jobs

(* a partial update has been applied to entry j (its status and nothing    *)
(* else is set, its notifier is set) while id k is unknown to the registry *)
C27_Witness ==
    \E j, k \in JobIds :
       /\ j # k
       /\ jobs[j] = [JobInfo EXCEPT !.status = "processing", !.event = TRUE]
       /\ jobs[k] = NoLiveJob

----------------------------------------------------------------------------
(* Coalescing of updates by the change notifier *)

(* how far a status is along the lifecycle *)
StatusRank(status) ==
    CASE status = "pending" -> 0
      [] status = "processing" -> 1
      [] status \in Terminal -> 2

(* stream s's generator runs again after its wait in this step *)
ObserverRunsAgain(s) == streams[s].pc = "woken" /\ streams'[s].pc = "sent"

(* no frame of stream s carries a status older than an earlier frame's *)
FramesNeverGoBack(s) ==
    \A i, k \in 1..Len(streams[s].frames) :
       i < k => StatusRank(streams[s].frames[i].status)
                   <= StatusRank(streams[s].frames[k].status)

(* C28: however many updates a job received while its observer was         *)
(* waiting, the observer is woken once: when it runs again it emits one    *)
(* frame, and the frame carries the fields of the latest update; no frame  *)
(* carries a status older than one already emitted on the same stream.     *)
C28_NotifierCoalesces ==
    [][\A s \in StreamIds :
         /\ ObserverRunsAgain(s) =>
               /\ streams[s].updates # <<>>
               /\ streams'[s].frames =
                     Append(streams[s].frames,
                            streams[s].updates[Len(streams[s].updates)])
         /\ FramesNeverGoBack(s)']_vars

(* two updates reached a waiting observer before it ran again: it has sent *)
(* the first frame and one frame more, that of the second update           *)
C28_Witness ==
    \E s \in StreamIds :
       /\ streams[s].pc = "sent"
       /\ Len(streams[s].updates) = 2
       /\ Len(streams[s].frames) = 2
       /\ streams[s].frames[1].status = "pending"
       /\ streams[s].frames[2] = streams[s].updates[2]

----------------------------------------------------------------------------
(* The LRO poll loop, checked under AdapterSpec *)

(* the polls that fit into the waiting time when requests take no time *)
MaxPolls == LRO_MAX_WAIT_TIME \div LRO_POLL_INTERVAL + 1

InPollLoop == apc \in {"poll", "pollSleep"}

(* the answer to the i-th poll sent so far *)
PolledAnswer(i) == AnswerTo(calls - lro.polls + i)

LoopStep == PollTimesOut \/ (\E d \in PollRequestSeconds : PollEndpointAnswers(d)) \/ PollAgain

(* C29: the poll loop always terminates: it is never stuck and sends at    *)
(* most 61 polls, each but the last followed by a sleep of 10 s; it ends   *)
(* on the first response with done true, returning the result when that    *)
(* holds a video; if no response is done it raises the timeout once more   *)
(* than 600 s have elapsed, which makes the job failed and ends the        *)
(* invocation, the permit's block left.                                    *)
C29_PollLoopTerminates ==
    /\ lro.polls <= MaxPolls
    /\ lro.elapsed >= LRO_POLL_INTERVAL * (lro.polls - 1)
    /\ InPollLoop => ENABLED LoopStep
    /\ \A i \in 1..(lro.polls - 1) :
          PolledAnswer(i).status = 200 /\ ~Done(PolledAnswer(i))
    /\ InPollLoop /\ lro.polls > 0 => ~Done(PolledAnswer(lro.polls))
    /\ apc = "done" /\ lro.polls > 0 /\ Done(PolledAnswer(lro.polls))
                    /\ PolledAnswer(lro.polls).body = "video"
          => outcome = Returned
    /\ outcome.result = "TimeoutError" =>
          /\ apc = "done"
          /\ lro.elapsed > LRO_MAX_WAIT_TIME
          /\ lro.elapsed >= LRO_POLL_INTERVAL * lro.polls
          /\ ~Done(PolledAnswer(lro.polls))
          /\ JobAfter(outcome).status = "failed"
          /\ JobAfter(outcome).errorMessage = outcome.message

(* no response was done and the loop has raised the timeout after 61 polls *)
C29_Witness ==
    /\ outcome.result = "TimeoutError"
    /\ lro.polls = MaxPolls
    /\ apc = "done"

----------------------------------------------------------------------------
(* Poll responses that carry an error field *)

(* the i-th poll of the invocation was answered with HTTP 200 and an error *)
(* field                                                                   *)
PolledError(i) ==
    PolledAnswer(i).status = 200 /\ HasError(PolledAnswer(i))

(* the invocation has ended with an exception that the caller's handler    *)
(* turns into a failed job                                                 *)
EndedInFailure ==
    /\ apc = "done"
    /\ outcome.result \notin {"none", "returned"}
    /\ JobAfter(outcome).status = "failed"

(* C30: a poll response with HTTP 200 and an error field ends polling at   *)
(* once with a failure and the job becomes failed, whether or not the      *)
(* response also has done true; no further poll is sent.                   *)
C30_ErrorFieldEndsPolling ==
    \A i \in 1..lro.polls :
       PolledError(i) => i = lro.polls /\ EndedInFailure

(* C30 as amended: a poll response with HTTP 200, done true and an error   *)
(* field ends polling at once with a failure and the job becomes failed,   *)
(* and no further poll is sent; without done true the error field is not   *)
(* looked at: the loop sleeps and polls again until a response is done or  *)
(* the time is over.                                                       *)
C30_ErrorOfDoneOperationEndsPolling ==
    \A i \in 1..lro.polls :
       /\ PolledError(i) /\ Done(PolledAnswer(i)) =>
             /\ i = lro.polls
             /\ EndedInFailure
             /\ outcome = OperationError(PolledAnswer(i))
       /\ PolledError(i) /\ ~Done(PolledAnswer(i)) /\ i = lro.polls =>
             InPollLoop \/ outcome.result = "TimeoutError"

(* a first response with an error field and without done was followed by   *)
(* another poll, whose response, done with an error field, ended the       *)
(* invocation in failure                                                   *)
C30_Witness ==
    /\ lro.polls = 2
    /\ PolledAnswer(1).body = "runningError"
    /\ PolledAnswer(2).body = "error"
    /\ EndedInFailure


----------------------------------------------------------------------------
(* The adapter's pure functions applied to one input each: the error       *)
(* classification of generate_image's except clause, the safety            *)
(* translation and the extraction of the video from an operation's result. *)

notFnVars == <<serviceVars, permitVars, adapterVars, frontVars>>

(* the results of finished operations: filtered or not, with up to one     *)
(* reason, carrying the video at any of the five locations                 *)
Results ==
    {[status |-> 200, body |-> b, reasons |-> r, text |-> "", locations |-> l] :
         b \in {"video", "filtered"},
         r \in {<<>>, <<"Violence">>, <<"person">>, <<"SAFETY">>},
         l \in SUBSET (1..Len(ProbeLocations))}

(* generate_image's except clause, lines 172-188, meets an error text *)
ClassifyError(text) ==
    /\ fn' = [NoCall EXCEPT !.op = "classify", !.text = text,
                            !.output = ClassifyImageError(text)]
    /\ UNCHANGED notFnVars

(* _to_korean_safety_message(error_msg), lines 84-93 *)
Translate(text) ==
    /\ fn' = [NoCall EXCEPT !.op = "translate", !.text = text,
                            !.output = [result |-> "returned",
                                        message |-> ToKoreanSafetyMessage(text)]]
    /\ UNCHANGED notFnVars

(* _extract_video_from_result(result), lines 429-495 *)
ExtractVideo(answer) ==
    /\ LET out == ExtractVideoFromResult(answer)
       IN  fn' = [NoCall EXCEPT !.op = "extract", !.answer = answer,
                                !.output = out,
                                !.bytes = IF out.result = "returned"
                                          THEN VideoBytes(answer) ELSE ""]
    /\ UNCHANGED notFnVars

FunctionInit == Init

FunctionNext ==
    \/ \E text \in Texts : ClassifyError(text)
    \/ \E text \in Texts : Translate(text)
    \/ \E answer \in Results : ExtractVideo(answer)

FunctionSpec == FunctionInit /\ [][FunctionNext]_vars

(* the substrings and the patterns as the specification lists them *)
ListedRetryable ==
    {"429", "RESOURCE_EXHAUSTED", "503", "UNAVAILABLE", "500", "INTERNAL"}

ListedPatterns ==
    <<"usage guidelines", "could not be submitted", "raiMediaFiltered",
      "safety", "responsible ai", "copyright", "trademark", "person",
      "child", "blocked">>

HasRetryable(text) ==
    \E s \in ListedRetryable : Contains(Spell(text), Spell(s))

(* the listed patterns that a text contains once lowercased *)
LowercasedHits(text) ==
    {i \in 1..Len(ListedPatterns) :
         Contains(Lower(Spell(text)), Spell(ListedPatterns[i]))}

(* the listed patterns that a text contains in any letter case *)
AnyCaseHits(text) ==
    {i \in 1..Len(ListedPatterns) :
         Contains(Lower(Spell(text)), Lower(Spell(ListedPatterns[i])))}

Sentences == {SAFETY_PATTERNS[i].sentence : i \in 1..Len(SAFETY_PATTERNS)}

(* C31: an image error is retryable exactly when its text contains one of  *)
(* the six listed substrings; any other error is non-retryable and carries *)
(* a localized sentence exactly when its lowercased text contains a safety *)
(* pattern; a text with both a retryable substring and a safety pattern is *)
(* retried and keeps its text.                                             *)
C31_RetryableCheckedFirst ==
    fn.op = "classify" =>
        /\ fn.output.result = "RetryableAPIError" <=> HasRetryable(fn.text)
        /\ fn.output.result \in {"RetryableAPIError", "NonRetryableAPIError"}
        /\ fn.output.result = "RetryableAPIError" => fn.output.message = fn.text
        /\ fn.output.result = "NonRetryableAPIError" =>
               /\ fn.output.message \in Sentences <=> LowercasedHits(fn.text) # {}
               /\ fn.output.message \notin Sentences => fn.output.message = fn.text

(* an error with a retryable substring and a safety pattern was classified *)
C31_Witness ==
    /\ fn.op = "classify"
    /\ HasRetryable(fn.text)
    /\ LowercasedHits(fn.text) # {}
    /\ fn.output = Raised("RetryableAPIError", fn.text)


(* C32: a text that contains one of the ten listed patterns in any letter  *)
(* case is replaced by the sentence of the first such pattern in list      *)
(* order, and a text that contains none of them is not translated.         *)
C32_PatternInAnyCaseIsTranslated ==
    fn.op = "translate" =>
        LET hits == AnyCaseHits(fn.text)
        IN  IF hits = {} THEN fn.output.message = "None"
            ELSE fn.output.message =
                     SAFETY_PATTERNS[CHOOSE i \in hits : \A k \in hits : i <= k].sentence

(* what the translation does: the same with the patterns compared as they  *)
(* are written against the lowercased text                                 *)
TranslatesLowercasePatterns ==
    fn.op = "translate" =>
        LET hits == LowercasedHits(fn.text)
        IN  IF hits = {} THEN fn.output.message = "None"
            ELSE fn.output.message =
                     SAFETY_PATTERNS[CHOOSE i \in hits : \A k \in hits : i <= k].sentence


(* the messages of a safety error: a pattern's sentence or the fixed       *)
(* sentence of line 446                                                    *)
SafetyMessages == Sentences \cup {FilteredFallback}

(* the bytes of the first listed location that the result carries *)
FirstLocationBytes(answer) ==
    LET first == CHOOSE i \in answer.locations : \A k \in answer.locations : i <= k
    IN  CASE first = 1 -> "video1"
          [] first = 2 -> "video2"
          [] first = 3 -> "video3"
          [] first = 4 -> "video4"
          [] first = 5 -> "video5"

(* C33 as stated: extraction returns the decoded bytes of the first of the *)
(* five locations that is present, raises a safety error when              *)
(* raiMediaFilteredCount > 0 whether or not bytes are present, and raises  *)
(* a safety error with the fixed localized sentence when no location       *)
(* matches.                                                                *)
C33_NoLocationRaisesSafetyError ==
    fn.op = "extract" =>
        IF fn.answer.body = "filtered"
        THEN fn.output.result = "Exception" /\ fn.output.message \in SafetyMessages
        ELSE IF fn.answer.locations = {}
        THEN fn.output = Raised("Exception", FilteredFallback)
        ELSE fn.output = Returned /\ fn.bytes = FirstLocationBytes(fn.answer)

(* C33 as amended: the same, except that a result with no filtered media   *)
(* and no video at any location raises the extraction failure of lines     *)
(* 492-495, which is no safety error.                                      *)
C33_NoLocationRaisesExtractionFailure ==
    fn.op = "extract" =>
        IF fn.answer.body = "filtered"
        THEN fn.output.result = "Exception" /\ fn.output.message \in SafetyMessages
        ELSE IF fn.answer.locations = {}
        THEN /\ fn.output = Raised("Exception", ExtractionFailed)
             /\ fn.output.message \notin SafetyMessages
        ELSE fn.output = Returned /\ fn.bytes = FirstLocationBytes(fn.answer)

(* a result without the first location and with two later ones gave the    *)
(* bytes of the earlier one                                                *)
C33_Witness ==
    /\ fn.op = "extract"
    /\ fn.answer.body = "video"
    /\ fn.answer.locations = {2, 5}
    /\ fn.output = Returned
    /\ fn.bytes = "video2"


----------------------------------------------------------------------------
(* a worker ends the handling of the job it holds and returns to its loop *)
HandlingEnds(w) ==
    /\ wpc[w] = "failReg"
    /\ wpc'[w] = "idle"

(* C34: when a worker has brought an image-to-video job to a terminal      *)
(* status, completed or failed, and is done with it, it has removed the    *)
(* temporary reference image (the removal of an existing file from the     *)
(* temp directory succeeds), and the job keeps its terminal status.        *)
C34_TempImageRemovedAfterTerminal ==
    [][\A w \in Workers :
           (HandlingEnds(w) /\ store[wjob[w]].jobType = "image-to-video") =>
               /\ store'[wjob[w]].status \in Terminal
               /\ wjob[w] \notin temp']_vars


----------------------------------------------------------------------------
(* C35: every stream that the server has closed wrote, as its last frame,  *)
(* a snapshot whose status is completed or failed, also when the job       *)
(* became terminal while the generator was suspended in an earlier yield.  *)
C35_ClosedStreamEndsOnTerminalFrame ==
    \A s \in StreamIds :
        streams[s].pc = "closed" =>
            /\ streams[s].frames # <<>>
            /\ streams[s].frames[Len(streams[s].frames)].status \in Terminal


----------------------------------------------------------------------------
(* C36: of two refresh requests in flight that presented the same refresh  *)
(* token, at most one is answered with new tokens, so one stored token     *)
(* never has two stored successors.                                        *)
C36_OneRefreshPerToken ==
    \A c, d \in Clients :
        (/\ c # d
         /\ authReq[c].op = "refresh"
         /\ authReq[d].op = "refresh"
         /\ authReq[c].token = authReq[d].token
         /\ authReq[c].status = 200)
            => authReq[d].status # 200


----------------------------------------------------------------------------
(* the jobs that a worker has picked up and not finished: held by a worker *)
(* or left processing in the store                                         *)
PickedUp ==
    {j \in JobIds : \/ store[j].status = "processing"
                    \/ \E w \in Workers : wjob[w] = j}

(* the worker tasks that start(num_workers) created *)
LiveWorkers == {w \in Workers : wpc[w] # "off"}

----------------------------------------------------------------------------
(* how far a store row has come *)
RowRank(status) ==
    CASE status \in {"absent", "queued"} -> 0
      [] status = "processing" -> 1
      [] status \in Terminal -> 2

(* C38: a worker writes each status to the store row before it updates    *)
(* the registry entry, so whenever the registry shows processing,          *)
(* completed or failed for a job, the store row shows that status or a     *)
(* later one.                                                              *)
C38_StoreNeverBehindRegistry ==
    \A j \in JobIds :
        jobs[j].status \in {"processing", "completed", "failed"} =>
            RowRank(store[j].status) >= StatusRank(jobs[j].status)

(* the order of the two writes alone: a worker's update of the registry    *)
(* entry repeats the status and message that the worker has written to the *)
(* store row in its step before                                            *)
WorkerWritesStoreFirst ==
    [][\A w \in Workers :
           /\ (wpc[w] = "markDb" /\ wpc'[w] = "markReg") =>
                  /\ store'[wjob[w]].status = "processing"
                  /\ jobs'[wjob[w]] = jobs[wjob[w]]
           /\ (wpc[w] = "markReg" /\ wpc'[w] \in {"readImg", "failDb"}) =>
                  jobs'[wjob[w]].status = "processing"
           /\ (wpc[w] = "failDb" /\ wpc'[w] = "failReg") =>
                  /\ store'[wjob[w]].status = "failed"
                  /\ jobs'[wjob[w]] = jobs[wjob[w]]
           /\ (wpc[w] = "failReg" /\ wpc'[w] = "idle") =>
                  jobs'[wjob[w]].status = "failed"]_vars


----------------------------------------------------------------------------
----------------------------------------------------------------------------
(* The worker pool over a store whose calls can raise (the database is     *)
(* unreachable, a query times out).                                        *)

(* the message of the exception a failed store call raises *)
StoreError == "Could not connect to the query engine"

(* a loop that ends when an exception reaches it *)
EscapedKillsWorker(pc) == "off"

(* _worker_loop, lines 112-113: an Exception that escapes _process_job is  *)
(* logged and the while loop goes on to its next get()                     *)
Escaped(pc) == "idle"

(* The store call that worker w awaits raises.  find_unique (line 117) is  *)
(* outside the try of _process_job and db.job.update(failed) (line 143) is *)
(* inside its handler: both exceptions escape _process_job.  The update to *)
(* processing (line 147) is inside the try: the handler catches it.        *)
StoreRaises(w) ==
    /\ wpc[w] \in {"find", "markDb", "failDb"}
    /\ IF wpc[w] = "markDb"
       THEN /\ wpc' = [wpc EXCEPT ![w] = "failDb"]
            /\ wexc' = [wexc EXCEPT ![w] = StoreError]
            /\ UNCHANGED wjob
       ELSE /\ wpc' = [wpc EXCEPT ![w] = Escaped(wpc[w])]
            /\ wexc' = [wexc EXCEPT ![w] = "null"]
            /\ wjob' = [wjob EXCEPT ![w] = 0]
    /\ UNCHANGED <<store, clock, jobs, queue, running, temp>>
    /\ UNCHANGED notQueueVars

FaultInit == Init

(* the pool's steps of Next (the rows' ageing towards the zombie cleanup   *)
(* is left to Spec) and the store's failures                               *)
FaultNext ==
    \/ \E num_workers \in 1..NumWorkers : Start(num_workers)
    \/ Stop
    \/ Crash
    \/ \E j \in JobIds, type \in JobTypes : SubmitJob(j, type)
    \/ \E w \in Workers : WorkerStep(w)
    \/ \E w \in Workers : StoreRaises(w)

FaultSpec == FaultInit /\ [][FaultNext]_vars

(* an exception escapes _process_job in this step *)
ExceptionEscapes(w) ==
    /\ wpc[w] \in {"find", "failDb"}
    /\ wjob[w] # 0
    /\ wjob'[w] = 0
    /\ wpc[w] = "find" => Runnable(store[wjob[w]])
    /\ wpc[w] = "failDb" => jobs'[wjob[w]] = jobs[wjob[w]]
    /\ running'

(* C40: an exception that escapes _process_job leaves the worker in its    *)
(* loop, ready to dequeue, and a worker task that start() created leaves   *)
(* its loop only in a step that clears the running flag (stop() with its   *)
(* cancellation, or the end of the process), so the live workers stay the  *)
(* same from start() to stop().                                            *)
C40_WorkerSurvivesEscapedException ==
    [][\A w \in Workers :
           /\ ExceptionEscapes(w) => wpc'[w] = "idle"
           /\ (wpc[w] # "off" /\ wpc'[w] = "off") => ~running'
           /\ (running /\ running') => LiveWorkers' = LiveWorkers]_vars

(* the store failed while a worker was recording a failure: the row is     *)
(* left processing with no worker on it, and the worker is back at the     *)
(* FIFO and is picking up the next job                                     *)
C40_Witness ==
    /\ running
    /\ \E j \in JobIds :
           /\ store[j].status = "processing"
           /\ jobs[j].status = "processing"
           /\ \A w \in Workers : wjob[w] # j
           /\ \E w \in Workers : wpc[w] = "find" /\ wjob[w] # j

============================================================================
